---- MODULE Spec2Model ----
(***************************************************************************)
(* Image-Vault: the storage repository (its in-memory and relational       *)
(* variants), the REST handlers that use it, the upload pipeline and the   *)
(* filename categoriser, as state machines.                                *)
(*                                                                         *)
(* JavaScript values: a missing property or parameter is Undefined, SQL    *)
(* NULL and JS null are Null; both are kept apart from every real string.  *)
(* A string the code inspects (a filename, a MIME type) is a sequence of   *)
(* one-character strings; a path or URL pathname is a sequence of segments *)
(* (the parts between slashes), each segment a tuple.                      *)
(***************************************************************************)
EXTENDS Integers, Sequences, FiniteSets, TLC

VARIABLES
    variant,    \* which storage class the process exports as `storage`
    users,      \* Map<string, User> / table users: id -> row
    images,     \* Map<string, Image> / table images: id -> row
    now,        \* the clock read by Date.now(), new Date() and SQL now()
    lastOp,     \* the last repository or route call and what it returned
    made,       \* history: createImage calls that returned, not yet deleted
    nCalls,     \* history: number of mutating calls made so far
    fname,      \* determineCategory: the filename it is called with
    category,   \* determineCategory: what the last call returned
    firstCategory,  \* history: what the first call returned
    catCalls,   \* history: calls of determineCategory so far
    bucket,     \* the object store's bucket 'images': path -> what was written
    reqs,       \* the HTTP requests of the server: slot -> where it stands
    router,     \* which version of the routes file the server runs
    twin,       \* a DatabaseStorage given the same calls as the in-memory repository
    gallery,    \* the ImageGallery component of one browser: its state and query data
    preview,    \* the ImagePreview component: its props and state
    auth        \* the AuthProvider component, its calls and what a protected route shows

repoVars == <<variant, users, images, now, lastOp, made, nCalls>>
catVars == <<fname, category, firstCategory, catCalls>>
srvVars == <<bucket, reqs, router>>
pairVars == <<twin>>
galVars == <<gallery>>
prevVars == <<preview>>
authVars == <<auth>>
vars == <<repoVars, catVars, srvVars, pairVars, galVars, prevVars, authVars>>

\* ------------------------------------------------------------------ bounds
MaxTime == 1        \* the clock runs 0..MaxTime
MaxRand == 2        \* outcomes of Math.random() / a UUID draw: 1..MaxRand
MaxCalls == 3       \* mutating repository calls in one behaviour
MaxPieces == 2      \* a filename is made of up to MaxPieces pieces
MaxCatCalls == 2    \* calls of determineCategory on one filename
MaxReqs == 2        \* HTTP requests the server handles in one behaviour
MaxFiles == 2       \* files in one upload (the route takes up to 10)
MaxPosted == 2      \* files posted to the server in one behaviour

\* ------------------------------------------------------------ JS values
Undefined == "undefined"
Null == "null"

\* a || b
OrElse(a, b) == IF a \in {Undefined, Null, ""} THEN b ELSE a
\* a ?? b
Coalesce(a, b) == IF a \in {Undefined, Null} THEN b ELSE a

\* a Map / table as a function: put and remove
MapSet(m, k, v) == [x \in (DOMAIN m) \cup {k} |-> IF x = k THEN v ELSE m[x]]
MapDelete(m, k) == [x \in (DOMAIN m) \ {k} |-> m[x]]
EmptyMap == [x \in {} |-> 0]

\* ------------------------------------------------------------- variants
MemoryImages == "MemoryStorage(images)"       \* src/server/storage.ts
MemoryFull == "MemoryStorage(users+images)"   \* src/unnamed/part_012, second file
MemUuid == "MemStorage"                       \* src/unnamed/part_011
Database == "DatabaseStorage"                 \* src/unnamed/part_012, first file
Variants == {MemoryImages, MemoryFull, MemUuid, Database}
\* the variants that implement createUser / getUser / updateUser with the
\* (id, email, fullName, avatarUrl) user of the current schema
UserVariants == {MemoryFull, Database}

\* ------------------------------------------------------- rows and inputs
NoImage == [id |-> <<"none", 0, 0>>, filename |-> <<>>, originalName |-> <<>>,
            mimeType |-> <<>>, size |-> 0, category |-> Undefined,
            userId |-> Undefined, uploadedAt |-> 0]
NoUser == [id |-> Undefined, email |-> Undefined, fullName |-> Undefined,
           avatarUrl |-> Undefined, createdAt |-> 0, updatedAt |-> 0]

UserIds == {"u1", "u2"}
Emails == {"a@x", "b@x"}

\* InsertImage values handed to createImage: two different files, one without
\* a category and an owner, one with both
InsertImages ==
    { [filename |-> <<<<"uploads">>, <<"1.jpg">>>>,
       originalName |-> <<"f", "a", "c", "e", ".", "j", "p", "g">>,
       mimeType |-> <<"i", "m", "a", "g", "e", "/", "j", "p", "e", "g">>,
       size |-> 10, category |-> Undefined, userId |-> Undefined],
      [filename |-> <<<<"uploads">>, <<"2.png">>>>,
       originalName |-> <<"h", "i", "l", "l", ".", "p", "n", "g">>,
       mimeType |-> <<"i", "m", "a", "g", "e", "/", "p", "n", "g">>,
       size |-> 20, category |-> "portrait", userId |-> "u1"] }

\* InsertUser values handed to createUser
InsertUsers ==
    { [id |-> i, email |-> e, fullName |-> "Ann", avatarUrl |-> Undefined] :
        i \in UserIds, e \in Emails }

\* a row of the users table that is there when the process starts
StoredUser(i, e) ==
    [id |-> i, email |-> e, fullName |-> "Ann", avatarUrl |-> "pic0",
     createdAt |-> 0, updatedAt |-> 0]

UserFields == {"email", "fullName", "avatarUrl"}

\* ------------------------------------------ the images Map, in insertion order
ImgIds(imgs) == { imgs[i].id : i \in DOMAIN imgs }
ImgHas(imgs, id) == id \in ImgIds(imgs)
\* Map.get
ImgGet(imgs, id) == imgs[CHOOSE i \in DOMAIN imgs : imgs[i].id = id]
\* Map.set: an existing key keeps its place and takes the new value
ImgSet(imgs, image) ==
    IF ImgHas(imgs, image.id)
    THEN [i \in DOMAIN imgs |-> IF imgs[i].id = image.id THEN image ELSE imgs[i]]
    ELSE Append(imgs, image)
\* Map.delete
ImgDelete(imgs, id) == SelectSeq(imgs, LAMBDA x : x.id # id)

\* ------------------------------------------------------------ getImages
\* the comparator (a, b) => time(b.uploadedAt) - time(a.uploadedAt)
CompareUploadedAt(a, b) == b.uploadedAt - a.uploadedAt

\* Array.prototype.sort is stable: x goes before the first element that the
\* comparator puts strictly after it
RECURSIVE InsertStable(_, _)
InsertStable(sorted, x) ==
    IF sorted = <<>> THEN <<x>>
    ELSE IF CompareUploadedAt(Head(sorted), x) > 0
         THEN <<x>> \o sorted
         ELSE <<Head(sorted)>> \o InsertStable(Tail(sorted), x)

RECURSIVE SortStable(_)
SortStable(s) ==
    IF s = <<>> THEN <<>>
    ELSE InsertStable(SortStable(SubSeq(s, 1, Len(s) - 1)), s[Len(s)])

MemoryStorage_getImages(imgs) == SortStable(imgs)

\* SELECT * FROM images ORDER BY uploaded_at DESC: rows with equal uploaded_at
\* come in any order
Orderings(imgs) ==
    LET n == Len(imgs)
        perms == { p \in [1..n -> 1..n] : \A i, j \in 1..n : i # j => p[i] # p[j] }
    IN  { [i \in 1..n |-> imgs[p[i]]] : p \in perms }

DatabaseStorage_getImages(imgs) ==
    { s \in Orderings(imgs) :
        \A i \in 1..(Len(s) - 1) : s[i].uploadedAt >= s[i + 1].uploadedAt }

\* the lists getImages can return
getImages(v, imgs) ==
    IF v = Database THEN DatabaseStorage_getImages(imgs)
    ELSE {MemoryStorage_getImages(imgs)}

\* ------------------------------------------------------------- getImage
getImage(v, imgs, id) ==
    IF ImgHas(imgs, id) THEN [found |-> TRUE, image |-> ImgGet(imgs, id)]
    ELSE [found |-> FALSE, image |-> NoImage]

\* ----------------------------------------------------------- createImage
\* `img_${Date.now()}_${Math.random().toString(36).substr(2, 9)}`
TimeRandomId(t, r) == <<"img", t, r>>
\* randomUUID() / gen_random_uuid()
UuidId(r) == <<"uuid", 0, r>>

\* src/server/storage.ts
MemoryImages_createImage(imgs, ins, t, r) ==
    LET image == [id |-> TimeRandomId(t, r),
                  filename |-> ins.filename,
                  originalName |-> ins.originalName,
                  mimeType |-> ins.mimeType,
                  size |-> ins.size,
                  category |-> OrElse(ins.category, "landscape"),
                  userId |-> OrElse(ins.userId, Null),
                  uploadedAt |-> t]
    IN  [ok |-> TRUE, images |-> ImgSet(imgs, image), image |-> image]

\* src/unnamed/part_012, MemoryStorage
MemoryFull_createImage(imgs, ins, t, r) ==
    LET image == [id |-> TimeRandomId(t, r),
                  filename |-> ins.filename,
                  originalName |-> ins.originalName,
                  mimeType |-> ins.mimeType,
                  size |-> ins.size,
                  category |-> Coalesce(ins.category, Null),
                  userId |-> Coalesce(ins.userId, Null),
                  uploadedAt |-> t]
    IN  [ok |-> TRUE, images |-> ImgSet(imgs, image), image |-> image]

\* src/unnamed/part_011, MemStorage
MemUuid_createImage(imgs, ins, t, r) ==
    LET image == [id |-> UuidId(r),
                  filename |-> ins.filename,
                  originalName |-> ins.originalName,
                  mimeType |-> ins.mimeType,
                  size |-> ins.size,
                  category |-> OrElse(ins.category, Null),
                  userId |-> OrElse(ins.userId, Null),
                  uploadedAt |-> t]
    IN  [ok |-> TRUE, images |-> ImgSet(imgs, image), image |-> image]

\* INSERT INTO images ... RETURNING *: the column defaults fill what the
\* insert leaves out; a primary-key or foreign-key violation raises
DatabaseStorage_createImage(imgs, usrs, ins, t, r) ==
    LET image == [id |-> UuidId(r),
                  filename |-> ins.filename,
                  originalName |-> ins.originalName,
                  mimeType |-> ins.mimeType,
                  size |-> ins.size,
                  category |-> IF ins.category = Undefined THEN "landscape"
                               ELSE ins.category,
                  userId |-> IF ins.userId = Undefined THEN Null ELSE ins.userId,
                  uploadedAt |-> t]
    IN  IF \/ ImgHas(imgs, image.id)
           \/ (image.userId # Null /\ image.userId \notin DOMAIN usrs)
        THEN [ok |-> FALSE, images |-> imgs, image |-> NoImage]
        ELSE [ok |-> TRUE, images |-> Append(imgs, image), image |-> image]

createImage(v, imgs, usrs, ins, t, r) ==
    CASE v = MemoryImages -> MemoryImages_createImage(imgs, ins, t, r)
      [] v = MemoryFull -> MemoryFull_createImage(imgs, ins, t, r)
      [] v = MemUuid -> MemUuid_createImage(imgs, ins, t, r)
      [] v = Database -> DatabaseStorage_createImage(imgs, usrs, ins, t, r)

\* ----------------------------------------------------------- deleteImage
\* Map.delete(id) returns whether the key was there;
\* DELETE ... WHERE id = $1 answers rowCount > 0
\* (a delete that reports success whatever it found)
deleteImage_AlwaysTrue(v, imgs, id) ==
    [deleted |-> TRUE, images |-> ImgDelete(imgs, id)]

deleteImage(v, imgs, id) ==
    [deleted |-> ImgHas(imgs, id), images |-> ImgDelete(imgs, id)]

\* ------------------------------------------------------------ createUser
\* src/unnamed/part_012, MemoryStorage: users.set(user.id, user)
MemoryStorage_createUser(usrs, ins, t) ==
    LET user == [id |-> ins.id,
                 email |-> ins.email,
                 fullName |-> Coalesce(ins.fullName, Null),
                 avatarUrl |-> Coalesce(ins.avatarUrl, Null),
                 createdAt |-> t,
                 updatedAt |-> t]
    IN  [ok |-> TRUE, users |-> MapSet(usrs, user.id, user), user |-> user]

\* INSERT INTO users ... RETURNING *: id is the primary key and
\* users_email_unique forbids a second row with the same email
DatabaseStorage_createUser(usrs, ins, t) ==
    LET user == [id |-> ins.id,
                 email |-> ins.email,
                 fullName |-> IF ins.fullName = Undefined THEN Null ELSE ins.fullName,
                 avatarUrl |-> IF ins.avatarUrl = Undefined THEN Null ELSE ins.avatarUrl,
                 createdAt |-> t,
                 updatedAt |-> t]
    IN  IF \/ ins.id \in DOMAIN usrs
           \/ \E k \in DOMAIN usrs : usrs[k].email = ins.email
        THEN [ok |-> FALSE, users |-> usrs, user |-> NoUser]
        ELSE [ok |-> TRUE, users |-> MapSet(usrs, user.id, user), user |-> user]

createUser(v, usrs, ins, t) ==
    IF v = Database THEN DatabaseStorage_createUser(usrs, ins, t)
    ELSE MemoryStorage_createUser(usrs, ins, t)

\* --------------------------------------------------------------- getUser
getUser(v, usrs, id) ==
    IF id \in DOMAIN usrs THEN [found |-> TRUE, user |-> usrs[id]]
    ELSE [found |-> FALSE, user |-> NoUser]

\* ------------------------------------------------------------ updateUser
\* updateData is an object: a function from the property names it has to their
\* values; a property may be there with the value Undefined

\* { ...existingUser, ...updateData, updatedAt: new Date() }: every own
\* property of updateData is copied, one whose value is undefined too
MemoryStorage_updateUser(usrs, id, updateData, t) ==
    IF id \notin DOMAIN usrs
    THEN [ok |-> TRUE, found |-> FALSE, users |-> usrs, user |-> NoUser]
    ELSE LET existingUser == usrs[id]
             updatedUser ==
                 [f \in DOMAIN existingUser |->
                     IF f = "updatedAt" THEN t
                     ELSE IF f \in DOMAIN updateData THEN updateData[f]
                     ELSE existingUser[f]]
         IN  [ok |-> TRUE, found |-> TRUE,
              users |-> MapSet(usrs, id, updatedUser), user |-> updatedUser]

\* UPDATE users SET ... WHERE id = $1 RETURNING *: the query builder leaves
\* out the properties whose value is undefined; email is NOT NULL and unique
DatabaseStorage_updateUser(usrs, id, updateData, t) ==
    IF id \notin DOMAIN usrs
    THEN [ok |-> TRUE, found |-> FALSE, users |-> usrs, user |-> NoUser]
    ELSE LET existingUser == usrs[id]
             updatedUser ==
                 [f \in DOMAIN existingUser |->
                     IF f = "updatedAt" THEN t
                     ELSE IF f \in DOMAIN updateData /\ updateData[f] # Undefined
                          THEN updateData[f]
                     ELSE existingUser[f]]
         IN  IF \/ updatedUser.email = Null
                \/ \E k \in (DOMAIN usrs) \ {id} : usrs[k].email = updatedUser.email
             THEN [ok |-> FALSE, found |-> TRUE, users |-> usrs, user |-> NoUser]
             ELSE [ok |-> TRUE, found |-> TRUE,
                   users |-> MapSet(usrs, id, updatedUser), user |-> updatedUser]

updateUser(v, usrs, id, updateData, t) ==
    IF v = Database THEN DatabaseStorage_updateUser(usrs, id, updateData, t)
    ELSE MemoryStorage_updateUser(usrs, id, updateData, t)

\* the partial updates a caller of the repository hands to updateUser
UpdateDatas == { [fullName |-> "Bob"], [email |-> "b@x"] }

\* ---------------------------------------------------- PUT /api/users/:id
\* JSON bodies of the request: any subset of the three fields
PutBodies ==
    { [fullName |-> "Bob"], [email |-> "b@x"], [avatarUrl |-> "pic"],
      [email |-> "b@x", fullName |-> "Bob", avatarUrl |-> "pic"] }

\* const { email, fullName, avatarUrl } = req.body
BodyField(body, f) == IF f \in DOMAIN body THEN body[f] ELSE Undefined

\* storage.updateUser(id, { email, fullName, avatarUrl }); 404 when it
\* returns undefined, 500 when it throws
PutUserRoute(v, usrs, id, body, t) ==
    LET updateData == [f \in UserFields |-> BodyField(body, f)]
        r == updateUser(v, usrs, id, updateData, t)
    IN  [status |-> IF ~r.ok THEN 500 ELSE IF ~r.found THEN 404 ELSE 200,
         users |-> r.users, user |-> r.user]

\* ------------------------------------------------------- POST /api/users
\* JSON bodies of the request: with and without id and email, an empty id
PostBodies ==
    { EmptyMap, [id |-> "u1"], [email |-> "a@x"], [id |-> "", email |-> "a@x"],
      [id |-> "u1", email |-> "a@x"],
      [id |-> "u2", email |-> "b@x", fullName |-> "Ann", avatarUrl |-> "pic"] }

\* !value
Falsy(value) == value \in {Undefined, Null, ""}

\* (the route without its check of id and email)
PostUserRoute_Unchecked(v, usrs, body, t) ==
    LET r == createUser(v, usrs,
                        [id |-> BodyField(body, "id"),
                         email |-> BodyField(body, "email"),
                         fullName |-> OrElse(BodyField(body, "fullName"), Null),
                         avatarUrl |-> OrElse(BodyField(body, "avatarUrl"), Null)], t)
    IN  [status |-> IF r.ok THEN 200 ELSE 500, users |-> r.users, user |-> r.user]

\* 400 when id or email is missing; storage.createUser(...); 500 when it throws
PostUserRoute(v, usrs, body, t) ==
    LET id == BodyField(body, "id")
        email == BodyField(body, "email")
    IN  IF Falsy(id) \/ Falsy(email)
        THEN [status |-> 400, users |-> usrs, user |-> NoUser]
        ELSE LET r == createUser(v, usrs,
                          [id |-> id,
                           email |-> email,
                           fullName |-> OrElse(BodyField(body, "fullName"), Null),
                           avatarUrl |-> OrElse(BodyField(body, "avatarUrl"), Null)], t)
             IN  [status |-> IF r.ok THEN 200 ELSE 500,
                  users |-> r.users, user |-> r.user]

\* -------------------------------------------------- GET /api/users/:id
\* storage.getUser(id); 404 when it returns undefined
GetUserRoute(v, usrs, id) ==
    LET r == getUser(v, usrs, id)
    IN  [status |-> IF ~r.found THEN 404 ELSE 200, users |-> usrs, user |-> r.user]

\* ---------------------------------------------------------- history
\* what lastOp holds; a call fills in the fields it has
NoOp == [op |-> "none", at |-> 0, ok |-> TRUE, found |-> FALSE, status |-> 0,
         id |-> NoImage.id, uid |-> Undefined,
         ins |-> NoImage, image |-> NoImage, list |-> <<>>,
         user |-> NoUser, before |-> NoUser, body |-> EmptyMap,
         wasLive |-> FALSE, unchanged |-> TRUE]

MadeIds == { m.id : m \in made }

\* the ids a caller can hand to getImage and deleteImage: those createImage
\* has returned and are or were in the repository, and one it never returned
BogusId == <<"img", 0, 0>>
CallerIds == ImgIds(images) \cup MadeIds \cup {lastOp.id, BogusId}

TypeOK ==
    /\ variant \in Variants
    /\ now \in 0..MaxTime
    /\ nCalls \in 0..MaxCalls
    /\ DOMAIN users \subseteq UserIds

\* the categoriser before any call
CatIdle ==
    /\ fname = <<>>
    /\ category = ""
    /\ firstCategory = ""
    /\ catCalls = 0

\* ------------------------------------------------------- HTTP requests
NoPath == <<>>
\* a request slot: nothing received yet
NoRequest ==
    [kind |-> "none", pc |-> "idle", files |-> <<>>, rejected |-> {},
     userId |-> Undefined, i |-> 0, filePath |-> NoPath, putOk |-> FALSE,
     uploadedImages |-> <<>>, id |-> NoImage.id, image |-> NoImage,
     status |-> 0, error |-> "", body |-> <<>>, nPuts |-> 0, nCreates |-> 0,
     outage |-> FALSE]

\* the two versions of the routes file
RoutesTs == "server/routes.ts"       \* objects under images/
RoutesUser == "unnamed/part_010"     \* objects under the user's id
Routers == {RoutesTs, RoutesUser}

\* the server before any request
SrvIdle ==
    /\ bucket = EmptyMap
    /\ reqs = [r \in 1..MaxReqs |-> NoRequest]
    /\ router = RoutesTs

\* ------------------------------------------------- two repositories
\* what a call returned, without the generated id and the timestamps
NoResult == [ok |-> TRUE, found |-> FALSE,
             image |-> [filename |-> <<>>, originalName |-> <<>>, mimeType |-> <<>>,
                        size |-> 0, category |-> Undefined, userId |-> Undefined],
             user |-> [id |-> Undefined, email |-> Undefined,
                       fullName |-> Undefined, avatarUrl |-> Undefined],
             list |-> <<>>]
\* the second repository before any call: no rows; no call made
NoTwin == [users |-> EmptyMap, images |-> <<>>, memIds |-> <<>>, dbIds |-> <<>>,
           op |-> "none", mem |-> NoResult, db |-> NoResult]
PairIdle == twin = NoTwin

\* ------------------------------------------------------ the gallery
\* the component as it mounts: useState initial values, no query data, no
\* bulk delete running
NoGallery ==
    [images |-> <<>>, stale |-> FALSE,
     selectedCategory |-> <<"A", "l", "l">>, searchQuery |-> <<>>, filtered |-> <<>>,
     selectedImages |-> <<>>, selectionMode |-> FALSE,
     confirm |-> "none", captured |-> <<>>,
     target |-> NoImage.id, mutating |-> NoImage.id, singles |-> 0,
     pc |-> "idle", loop |-> <<>>, queue |-> <<>>, issued |-> <<>>, toast |-> "",
     loops |-> 0, elsewhere |-> 0]
GalIdle == gallery = NoGallery

\* the ImagePreview component before any image was viewed: useState(0),
\* useState(false); `last` is the handler that ran last and the index it saw
NoPreview ==
    [images |-> <<>>, image |-> NoImage, isOpen |-> FALSE,
     currentIndex |-> 0, showDeleteConfirm |-> FALSE,
     named |-> NoImage.id, deleted |-> NoImage.id,
     last |-> "none", from |-> 0, steps |-> 0]
PrevIdle == preview = NoPreview

\* the AuthProvider as it is mounted: useState(null), useState(true), initAuth
\* about to load the configuration; no sign-up made, no SIGNED_IN handler
\* running; posts counts the POST /api/users requests the server has received
MaxHandlers == 2    \* SIGNED_IN events handled in one behaviour
NoHandler == [pc |-> "idle", status |-> 0]
NoAuth ==
    [init |-> "config", loading |-> TRUE, user |-> Null, subscribed |-> FALSE,
     account |-> FALSE, signUp |-> "idle", signIns |-> 0,
     handler |-> [h \in 1..MaxHandlers |-> NoHandler],
     posts |-> 0]
AuthIdle == auth = NoAuth

\* ------------------------------------------------------------ Init
\* The maps of the in-memory classes start empty. The relational tables
\* outlive the process: users may hold a row when it starts.
Init ==
    /\ variant \in Variants
    /\ users \in IF variant = Database
                 THEN {EmptyMap, [i \in {"u1"} |-> StoredUser("u1", "a@x")]}
                 ELSE {EmptyMap}
    /\ images = <<>>
    /\ now = 0
    /\ lastOp = NoOp
    /\ made = {}
    /\ nCalls = 0
    /\ CatIdle
    /\ SrvIdle
    /\ PairIdle
    /\ GalIdle
    /\ PrevIdle
    /\ AuthIdle

\* ------------------------------------------------------------ actions
\* time passes
Tick ==
    /\ now < MaxTime
    /\ now' = now + 1
    /\ UNCHANGED <<variant, users, images, lastOp, made, nCalls, catVars, srvVars, pairVars, galVars, prevVars, authVars>>

CreateImage(ins, r) ==
    /\ nCalls < MaxCalls
    /\ LET res == createImage(variant, images, users, ins, now, r)
       IN  /\ images' = res.images
           /\ made' = IF res.ok THEN made \cup {res.image} ELSE made
           /\ lastOp' = [NoOp EXCEPT !.op = "createImage", !.at = now, !.ok = res.ok,
                                     !.ins = ins, !.image = res.image,
                                     !.id = res.image.id,
                                     !.wasLive = (res.ok /\ res.image.id \in MadeIds)]
    /\ nCalls' = nCalls + 1
    /\ UNCHANGED <<variant, users, now, catVars, srvVars, pairVars, galVars, prevVars, authVars>>

DeleteImage(id) ==
    /\ nCalls < MaxCalls
    /\ LET res == deleteImage(variant, images, id)
       IN  /\ images' = res.images
           /\ made' = { m \in made : m.id # id }
           /\ lastOp' = [NoOp EXCEPT !.op = "deleteImage", !.at = now, !.id = id,
                                     !.found = res.deleted,
                                     !.wasLive = (id \in MadeIds),
                                     !.unchanged = (res.images = images)]
    /\ nCalls' = nCalls + 1
    /\ UNCHANGED <<variant, users, now, catVars, srvVars, pairVars, galVars, prevVars, authVars>>

GetImage(id) ==
    /\ LET res == getImage(variant, images, id)
       IN  lastOp' = [NoOp EXCEPT !.op = "getImage", !.at = now, !.id = id,
                                  !.found = res.found, !.image = res.image,
                                  !.wasLive = (id \in MadeIds)]
    /\ UNCHANGED <<variant, users, images, now, made, nCalls, catVars, srvVars, pairVars, galVars, prevVars, authVars>>

GetImages ==
    /\ \E list \in getImages(variant, images) :
           lastOp' = [NoOp EXCEPT !.op = "getImages", !.at = now, !.list = list]
    /\ UNCHANGED <<variant, users, images, now, made, nCalls, catVars, srvVars, pairVars, galVars, prevVars, authVars>>

Next ==
    \/ Tick
    \/ \E ins \in InsertImages, r \in 1..MaxRand : CreateImage(ins, r)
    \/ \E id \in CallerIds : DeleteImage(id)
    \/ \E id \in CallerIds : GetImage(id)
    \/ GetImages

Spec == Init /\ [][Next]_vars

\* ================================================== the repository claims

NonIncreasing(list) ==
    \A i \in 1..(Len(list) - 1) : list[i].uploadedAt >= list[i + 1].uploadedAt

\* C1: after any sequence of createImage and deleteImage calls, getImages
\* returns exactly the records that were created and not yet deleted, each
\* once, most recent first.
C1_GetImagesExactAndSorted ==
    lastOp.op = "getImages" =>
        /\ { lastOp.list[i] : i \in DOMAIN lastOp.list } = made
        /\ Len(lastOp.list) = Cardinality(made)
        /\ NonIncreasing(lastOp.list)

\* C2: deleteImage of an id that createImage returned and that was not
\* deleted since returns true and the id is gone; getImage of an id that is
\* not live finds nothing; deleteImage of an id that is not live (a second
\* delete) returns false, raises nothing and changes nothing.
C2_DeleteThenAbsent ==
    /\ lastOp.op = "deleteImage" =>
          /\ lastOp.ok
          /\ ~ImgHas(images, lastOp.id)
          /\ lastOp.wasLive => lastOp.found
          /\ ~lastOp.wasLive => (~lastOp.found /\ lastOp.unchanged)
    /\ (lastOp.op = "getImage" /\ ~lastOp.wasLive) => ~lastOp.found

\* a second delete of an id that createImage had returned
C2_Witness ==
    /\ lastOp.op = "deleteImage"
    /\ lastOp.id # BogusId
    /\ ~lastOp.wasLive
    /\ nCalls = 3

\* C4: in every variant, createImage without a category returns and stores
\* category "landscape", without a userId stores userId null; the id is one
\* no stored record had, and uploadedAt is the time of the call.
C4_CreateImageDefaults ==
    (lastOp.op = "createImage" /\ lastOp.ok) =>
        /\ ImgHas(images, lastOp.id)
        /\ ImgGet(images, lastOp.id) = lastOp.image
        /\ lastOp.ins.category = Undefined => lastOp.image.category = "landscape"
        /\ lastOp.ins.userId = Undefined => lastOp.image.userId = Null
        /\ ~lastOp.wasLive
        /\ lastOp.image.uploadedAt = lastOp.at

\* ------------------------------------------------ the user repository
InitUsers ==
    /\ variant \in UserVariants
    /\ users = EmptyMap
    /\ images = <<>>
    /\ now = 0
    /\ lastOp = NoOp
    /\ made = {}
    /\ nCalls = 0
    /\ CatIdle
    /\ SrvIdle
    /\ PairIdle
    /\ GalIdle
    /\ PrevIdle
    /\ AuthIdle

CreateUser(ins) ==
    /\ nCalls < MaxCalls
    /\ LET res == createUser(variant, users, ins, now)
       IN  /\ users' = res.users
           /\ lastOp' = [NoOp EXCEPT !.op = "createUser", !.at = now, !.ok = res.ok,
                                     !.uid = ins.id, !.user = res.user,
                                     !.found = (\E k \in DOMAIN users :
                                                    users[k].email = ins.email),
                                     !.unchanged = (res.users = users)]
    /\ nCalls' = nCalls + 1
    /\ UNCHANGED <<variant, images, now, made, catVars, srvVars, pairVars, galVars, prevVars, authVars>>

GetUser(id) ==
    /\ LET res == getUser(variant, users, id)
       IN  lastOp' = [NoOp EXCEPT !.op = "getUser", !.at = now, !.uid = id,
                                  !.found = res.found, !.user = res.user]
    /\ UNCHANGED <<variant, users, images, now, made, nCalls, catVars, srvVars, pairVars, galVars, prevVars, authVars>>

UpdateUser(id, updateData) ==
    /\ nCalls < MaxCalls
    /\ LET res == updateUser(variant, users, id, updateData, now)
       IN  /\ users' = res.users
           /\ lastOp' = [NoOp EXCEPT !.op = "updateUser", !.at = now, !.ok = res.ok,
                                     !.uid = id, !.found = res.found,
                                     !.user = res.user,
                                     !.before = getUser(variant, users, id).user,
                                     !.body = updateData]
    /\ nCalls' = nCalls + 1
    /\ UNCHANGED <<variant, images, now, made, catVars, srvVars, pairVars, galVars, prevVars, authVars>>

PutUser(id, body) ==
    /\ nCalls < MaxCalls
    /\ LET res == PutUserRoute(variant, users, id, body, now)
       IN  /\ users' = res.users
           /\ lastOp' = [NoOp EXCEPT !.op = "putUser", !.at = now, !.status = res.status,
                                     !.ok = (res.status # 500),
                                     !.uid = id, !.found = (res.status # 404),
                                     !.user = res.user,
                                     !.before = getUser(variant, users, id).user,
                                     !.body = body,
                                     !.wasLive = (id \in DOMAIN users),
                                     !.unchanged = (res.users = users)]
    /\ nCalls' = nCalls + 1
    /\ UNCHANGED <<variant, images, now, made, catVars, srvVars, pairVars, galVars, prevVars, authVars>>

PostUser(body) ==
    /\ nCalls < MaxCalls
    /\ LET res == PostUserRoute(variant, users, body, now)
       IN  /\ users' = res.users
           /\ lastOp' = [NoOp EXCEPT !.op = "postUser", !.at = now, !.status = res.status,
                                     !.ok = (res.status # 500),
                                     !.uid = BodyField(body, "id"),
                                     !.user = res.user, !.body = body,
                                     !.unchanged = (res.users = users)]
    /\ nCalls' = nCalls + 1
    /\ UNCHANGED <<variant, images, now, made, catVars, srvVars, pairVars, galVars, prevVars, authVars>>

GetUserRequest(id) ==
    /\ LET res == GetUserRoute(variant, users, id)
       IN  /\ users' = res.users
           /\ lastOp' = [NoOp EXCEPT !.op = "getUserRequest", !.at = now,
                                     !.status = res.status, !.uid = id,
                                     !.found = (res.status # 404), !.user = res.user,
                                     !.wasLive = (id \in DOMAIN users),
                                     !.unchanged = (res.users = users)]
    /\ UNCHANGED <<variant, images, now, made, nCalls, catVars, srvVars, pairVars, galVars, prevVars, authVars>>

NextUsers ==
    \/ Tick
    \/ \E ins \in InsertUsers : CreateUser(ins)
    \/ \E id \in UserIds : GetUser(id)
    \/ \E id \in UserIds, d \in UpdateDatas : UpdateUser(id, d)
    \/ \E id \in UserIds, b \in PutBodies : PutUser(id, b)
    \/ \E b \in PostBodies : PostUser(b)
    \/ \E id \in UserIds : GetUserRequest(id)

SpecUsers == InitUsers /\ [][NextUsers]_vars

\* ======================================================= the user claims

\* C5: createUser with the email of a stored user fails and leaves the users
\* unchanged, so no two stored users have the same email.
C5_CreateUserEmailConflict ==
    /\ \A i, j \in DOMAIN users : i # j => users[i].email # users[j].email
    /\ (lastOp.op = "createUser" /\ lastOp.found) => (~lastOp.ok /\ lastOp.unchanged)

\* C6: a successful PUT /api/users/:id sets the fields its body gives and
\* updatedAt, and leaves every other field, id and createdAt as they were.
C6_PutUserFrame ==
    (lastOp.op = "putUser" /\ lastOp.status = 200) =>
        LET u == users[lastOp.uid]
        IN  /\ \A f \in DOMAIN lastOp.body : u[f] = lastOp.body[f]
            /\ \A f \in UserFields \ DOMAIN lastOp.body : u[f] = lastOp.before[f]
            /\ u.id = lastOp.before.id
            /\ u.createdAt = lastOp.before.createdAt
            /\ u.updatedAt = lastOp.at

\* ========================================================== categoriser
\* A string is a sequence of one-character strings.
UpperCase == <<"A", "B", "C", "D", "E", "F", "G", "H", "I", "J", "K", "L", "M", "N", "O", "P", "Q", "R", "S", "T", "U", "V", "W", "X", "Y", "Z">>
LowerCase == <<"a", "b", "c", "d", "e", "f", "g", "h", "i", "j", "k", "l", "m", "n", "o", "p", "q", "r", "s", "t", "u", "v", "w", "x", "y", "z">>

\* String.prototype.toLowerCase
LowerChar(c) ==
    IF \E i \in DOMAIN UpperCase : UpperCase[i] = c
    THEN LowerCase[CHOOSE i \in DOMAIN UpperCase : UpperCase[i] = c]
    ELSE c
toLowerCase(str) == [i \in DOMAIN str |-> LowerChar(str[i])]

\* String.prototype.includes
includes(str, sub) ==
    \E i \in 1..(Len(str) - Len(sub) + 1) : SubSeq(str, i, i + Len(sub) - 1) = sub

\* (the categoriser without toLowerCase)
determineCategory_CaseSensitive(filename) ==
    LET name == filename
    IN  IF \/ includes(name, <<"p", "o", "r", "t", "r", "a", "i", "t">>)
           \/ includes(name, <<"f", "a", "c", "e">>)
           \/ includes(name, <<"p", "e", "r", "s", "o", "n">>)
        THEN "portrait"
        ELSE IF \/ includes(name, <<"a", "b", "s", "t", "r", "a", "c", "t">>)
                \/ includes(name, <<"a", "r", "t">>)
        THEN "abstract"
        ELSE IF \/ includes(name, <<"n", "a", "t", "u", "r", "e">>)
                \/ includes(name, <<"f", "l", "o", "w", "e", "r">>)
                \/ includes(name, <<"t", "r", "e", "e">>)
                \/ includes(name, <<"a", "n", "i", "m", "a", "l">>)
        THEN "nature"
        ELSE "landscape"

determineCategory(filename) ==
    LET name == toLowerCase(filename)
    IN  IF \/ includes(name, <<"p", "o", "r", "t", "r", "a", "i", "t">>)
           \/ includes(name, <<"f", "a", "c", "e">>)
           \/ includes(name, <<"p", "e", "r", "s", "o", "n">>)
        THEN "portrait"
        ELSE IF \/ includes(name, <<"a", "b", "s", "t", "r", "a", "c", "t">>)
                \/ includes(name, <<"a", "r", "t">>)
        THEN "abstract"
        ELSE IF \/ includes(name, <<"n", "a", "t", "u", "r", "e">>)
                \/ includes(name, <<"f", "l", "o", "w", "e", "r">>)
                \/ includes(name, <<"t", "r", "e", "e">>)
                \/ includes(name, <<"a", "n", "i", "m", "a", "l">>)
        THEN "nature"
        ELSE "landscape"

\* the filenames of the specification's examples
SunsetNatureHike == <<"s", "u", "n", "s", "e", "t", "_", "n", "a", "t", "u", "r", "e", "_", "h", "i", "k", "e", ".", "p", "n", "g">>
FormalPortrait == <<"f", "o", "r", "m", "a", "l", "_", "p", "o", "r", "t", "r", "a", "i", "t", ".", "j", "p", "g">>
RandomFile == <<"r", "a", "n", "d", "o", "m", "_", "f", "i", "l", "e", ".", "p", "n", "g">>

\* pieces filenames are made of: the keywords in several cases, pieces that
\* make a keyword only together, and pieces that hold none
Pieces ==
    { <<"P", "o", "r", "t", "r", "a", "i", "t">>,
      <<"F", "A", "C", "E">>,
      <<"p", "e", "r", "s", "o", "n">>,
      <<"A", "b", "s", "t", "r", "a", "c", "t">>,
      <<"A", "R", "T">>,
      <<"a", "r", "t">>,
      <<"n", "a", "t", "u", "r", "e">>,
      <<"F", "L", "O", "W", "E", "R">>,
      <<"T", "r", "e", "e">>,
      <<"t", "r", "e">>,
      <<"e">>,
      <<"a", "n", "i", "m", "a", "l">>,
      <<"A", "n", "i", "m">>,
      <<"a", "l">>,
      <<"p">>,
      <<"_">>,
      <<"I", "M", "G", "1">>,
      <<".", "p", "n", "g">>,
      SunsetNatureHike, FormalPortrait, RandomFile }

RECURSIVE FileNames(_)
FileNames(n) ==
    IF n = 0 THEN {<<>>}
    ELSE LET shorter == FileNames(n - 1)
         IN  shorter \cup { a \o b : a \in shorter, b \in Pieces }

InitCategory ==
    /\ fname \in FileNames(MaxPieces)
    /\ category = ""
    /\ firstCategory = ""
    /\ catCalls = 0
    /\ variant = MemoryImages
    /\ users = EmptyMap
    /\ images = <<>>
    /\ now = 0
    /\ lastOp = NoOp
    /\ made = {}
    /\ nCalls = 0
    /\ SrvIdle
    /\ PairIdle
    /\ GalIdle
    /\ PrevIdle
    /\ AuthIdle

\* one call determineCategory(fname)
Categorize ==
    /\ catCalls < MaxCatCalls
    /\ category' = determineCategory(fname)
    /\ firstCategory' = IF catCalls = 0 THEN category' ELSE firstCategory
    /\ catCalls' = catCalls + 1
    /\ UNCHANGED <<fname, repoVars, srvVars, pairVars, galVars, prevVars, authVars>>

NextCategory == Categorize

SpecCategory == InitCategory /\ [][NextCategory]_vars

\* case-insensitive substring match, letter by letter
SameLetter(a, b) ==
    \/ a = b
    \/ \E i \in DOMAIN UpperCase : {a, b} = {UpperCase[i], LowerCase[i]}
ContainsIgnoringCase(str, word) ==
    \E i \in 1..(Len(str) - Len(word) + 1) :
        \A k \in 1..Len(word) : SameLetter(str[i + k - 1], word[k])
ContainsAny(str, words) == \E w \in words : ContainsIgnoringCase(str, w)

PortraitWords == { <<"p", "o", "r", "t", "r", "a", "i", "t">>, <<"f", "a", "c", "e">>, <<"p", "e", "r", "s", "o", "n">> }
AbstractWords == { <<"a", "b", "s", "t", "r", "a", "c", "t">>, <<"a", "r", "t">> }
NatureWords == { <<"n", "a", "t", "u", "r", "e">>,
                 <<"f", "l", "o", "w", "e", "r">>,
                 <<"t", "r", "e", "e">>,
                 <<"a", "n", "i", "m", "a", "l">> }

\* C8: determineCategory returns "portrait" if the name contains, ignoring
\* case, portrait, face or person; else "abstract" if abstract or art; else
\* "nature" if nature, flower, tree or animal; else "landscape"; a second call
\* on the same filename returns the same category, and the specification's
\* three examples come out as stated.
C8_CategoryRule ==
    catCalls > 0 =>
        /\ category = (IF ContainsAny(fname, PortraitWords) THEN "portrait"
                       ELSE IF ContainsAny(fname, AbstractWords) THEN "abstract"
                       ELSE IF ContainsAny(fname, NatureWords) THEN "nature"
                       ELSE "landscape")
        /\ category = firstCategory
        /\ fname = SunsetNatureHike => category = "nature"
        /\ fname = FormalPortrait => category = "portrait"
        /\ fname = RandomFile => category = "landscape"

\* a name in capitals that holds a nature word and a portrait word: the
\* portrait rule wins
C8_Witness ==
    /\ catCalls = MaxCatCalls
    /\ category = "portrait"
    /\ fname # toLowerCase(fname)
    /\ ContainsAny(fname, NatureWords)
    /\ ~includes(fname, <<"f", "a", "c", "e">>)

\* ===================================== memory and database, side by side
\* The in-memory repository is (variant, users, images); twin holds the rows
\* of a DatabaseStorage.  Every call goes to both.  The caller names an image
\* by the position of the createImage call that made it: each repository is
\* handed the id that it returned itself.
PairVariants == {MemoryImages, MemoryFull}

InitPair ==
    /\ variant \in PairVariants
    /\ users = EmptyMap
    /\ images = <<>>
    /\ now = 0
    /\ lastOp = NoOp
    /\ made = {}
    /\ nCalls = 0
    /\ CatIdle
    /\ SrvIdle
    /\ PairIdle
    /\ GalIdle
    /\ PrevIdle
    /\ AuthIdle

ImageOf(image) ==
    [filename |-> image.filename, originalName |-> image.originalName,
     mimeType |-> image.mimeType, size |-> image.size,
     category |-> image.category, userId |-> image.userId]
UserOf(user) ==
    [id |-> user.id, email |-> user.email, fullName |-> user.fullName,
     avatarUrl |-> user.avatarUrl]
ListOf(list) == [k \in DOMAIN list |-> ImageOf(list[k])]

\* the id a repository gave at the k-th createImage call; 0 is an id that
\* neither gave
IdAt(ids, k) == IF k = 0 THEN BogusId ELSE ids[k]
Handles == 0..Len(twin.memIds)

PairCreateUser(ins) ==
    /\ variant = MemoryFull
    /\ nCalls < MaxCalls
    /\ LET m == createUser(variant, users, ins, now)
           d == createUser(Database, twin.users, ins, now)
       IN  /\ users' = m.users
           /\ twin' = [twin EXCEPT !.users = d.users, !.op = "createUser",
                  !.mem = [NoResult EXCEPT !.ok = m.ok, !.user = UserOf(m.user)],
                  !.db = [NoResult EXCEPT !.ok = d.ok, !.user = UserOf(d.user)]]
    /\ nCalls' = nCalls + 1
    /\ UNCHANGED <<variant, images, now, lastOp, made, catVars, srvVars, galVars, prevVars, authVars>>

PairGetUser(id) ==
    /\ variant = MemoryFull
    /\ nCalls < MaxCalls
    /\ LET m == getUser(variant, users, id)
           d == getUser(Database, twin.users, id)
       IN  twin' = [twin EXCEPT !.op = "getUser",
               !.mem = [NoResult EXCEPT !.found = m.found, !.user = UserOf(m.user)],
               !.db = [NoResult EXCEPT !.found = d.found, !.user = UserOf(d.user)]]
    /\ nCalls' = nCalls + 1
    /\ UNCHANGED <<variant, users, images, now, lastOp, made, catVars, srvVars, galVars, prevVars, authVars>>

PairUpdateUser(id, updateData) ==
    /\ variant = MemoryFull
    /\ nCalls < MaxCalls
    /\ LET m == updateUser(variant, users, id, updateData, now)
           d == updateUser(Database, twin.users, id, updateData, now)
       IN  /\ users' = m.users
           /\ twin' = [twin EXCEPT !.users = d.users, !.op = "updateUser",
                  !.mem = [NoResult EXCEPT !.ok = m.ok, !.found = m.found,
                                           !.user = UserOf(m.user)],
                  !.db = [NoResult EXCEPT !.ok = d.ok, !.found = d.found,
                                          !.user = UserOf(d.user)]]
    /\ nCalls' = nCalls + 1
    /\ UNCHANGED <<variant, images, now, lastOp, made, catVars, srvVars, galVars, prevVars, authVars>>

\* each repository draws its own id
PairCreateImage(ins, rm, rd) ==
    /\ nCalls < MaxCalls
    /\ LET m == createImage(variant, images, users, ins, now, rm)
           d == createImage(Database, twin.images, twin.users, ins, now, rd)
       IN  /\ images' = m.images
           /\ twin' = [twin EXCEPT !.images = d.images, !.op = "createImage",
                  !.memIds = Append(@, m.image.id), !.dbIds = Append(@, d.image.id),
                  !.mem = [NoResult EXCEPT !.ok = m.ok, !.image = ImageOf(m.image)],
                  !.db = [NoResult EXCEPT !.ok = d.ok, !.image = ImageOf(d.image)]]
    /\ nCalls' = nCalls + 1
    /\ UNCHANGED <<variant, users, now, lastOp, made, catVars, srvVars, galVars, prevVars, authVars>>

PairGetImage(k) ==
    /\ nCalls < MaxCalls
    /\ LET m == getImage(variant, images, IdAt(twin.memIds, k))
           d == getImage(Database, twin.images, IdAt(twin.dbIds, k))
       IN  twin' = [twin EXCEPT !.op = "getImage",
               !.mem = [NoResult EXCEPT !.found = m.found, !.image = ImageOf(m.image)],
               !.db = [NoResult EXCEPT !.found = d.found, !.image = ImageOf(d.image)]]
    /\ nCalls' = nCalls + 1
    /\ UNCHANGED <<variant, users, images, now, lastOp, made, catVars, srvVars, galVars, prevVars, authVars>>

PairDeleteImage(k) ==
    /\ nCalls < MaxCalls
    /\ LET m == deleteImage(variant, images, IdAt(twin.memIds, k))
           d == deleteImage(Database, twin.images, IdAt(twin.dbIds, k))
       IN  /\ images' = m.images
           /\ twin' = [twin EXCEPT !.images = d.images, !.op = "deleteImage",
                  !.mem = [NoResult EXCEPT !.found = m.deleted],
                  !.db = [NoResult EXCEPT !.found = d.deleted]]
    /\ nCalls' = nCalls + 1
    /\ UNCHANGED <<variant, users, now, lastOp, made, catVars, srvVars, galVars, prevVars, authVars>>

PairGetImages ==
    /\ nCalls < MaxCalls
    /\ \E m \in getImages(variant, images), d \in getImages(Database, twin.images) :
           twin' = [twin EXCEPT !.op = "getImages",
               !.mem = [NoResult EXCEPT !.list = ListOf(m)],
               !.db = [NoResult EXCEPT !.list = ListOf(d)]]
    /\ nCalls' = nCalls + 1
    /\ UNCHANGED <<variant, users, images, now, lastOp, made, catVars, srvVars, galVars, prevVars, authVars>>

PairTick ==
    /\ now < MaxTime
    /\ now' = now + 1
    /\ UNCHANGED <<variant, users, images, lastOp, made, nCalls, catVars, srvVars, pairVars, galVars, prevVars, authVars>>

NextPair ==
    \/ PairTick
    \/ \E ins \in InsertUsers : PairCreateUser(ins)
    \/ \E id \in UserIds : PairGetUser(id)
    \/ \E id \in UserIds, updateData \in UpdateDatas : PairUpdateUser(id, updateData)
    \/ \E ins \in InsertImages, rm \in 1..MaxRand, rd \in 1..MaxRand :
           PairCreateImage(ins, rm, rd)
    \/ \E k \in Handles : PairGetImage(k)
    \/ \E k \in Handles : PairDeleteImage(k)
    \/ PairGetImages

SpecPair == InitPair /\ [][NextPair]_vars

\* C7: given the same calls, the in-memory repository and the relational
\* repository return the same: success or failure, found or not found, the
\* fields of the record, the order of the list; the generated ids and the
\* timestamps left aside.
C7_SameResults == twin.mem = twin.db

\* ============================================== uploads and deletes (REST)
\* limits: { fileSize: 10 * 1024 * 1024 }
MaxFileSize == 10 * 1024 * 1024

\* String.prototype.startsWith
startsWith(str, prefix) ==
    Len(str) >= Len(prefix) /\ SubSeq(str, 1, Len(prefix)) = prefix

ImagePrefix == <<"i", "m", "a", "g", "e", "/">>

\* the files a client can hold: an image, a text file, an image of exactly
\* the size limit and one a byte larger
Files ==
    { [originalname |-> <<"f", "a", "c", "e", ".", "j", "p", "g">>,
       mimetype |-> <<"i", "m", "a", "g", "e", "/", "j", "p", "e", "g">>, size |-> 10],
      [originalname |-> <<"n", "o", "t", "e", "s", ".", "t", "x", "t">>,
       mimetype |-> <<"t", "e", "x", "t", "/", "p", "l", "a", "i", "n">>, size |-> 20],
      [originalname |-> <<"t", "r", "e", "e", ".", "p", "n", "g">>,
       mimetype |-> <<"i", "m", "a", "g", "e", "/", "p", "n", "g">>, size |-> MaxFileSize],
      [originalname |-> <<"b", "i", "g">>,
       mimetype |-> <<"i", "m", "a", "g", "e", "/", "p", "n", "g">>, size |-> MaxFileSize + 1] }

RECURSIVE FileLists(_)
FileLists(n) ==
    IF n = 0 THEN {<<>>}
    ELSE LET shorter == FileLists(n - 1)
         IN  shorter \cup { Append(l, f) : l \in shorter, f \in Files }

\* values of the x-user-id header
Headers == {Undefined, "u1"}

\* ---- client: ImageUpload.onDrop
\* the filter of onDrop: a file that is no image or is larger than 10 MB is
\* left out (with a toast), the others are sent
OnDropAccepts(file) ==
    /\ startsWith(file.mimetype, ImagePrefix)
    /\ ~(file.size > 10 * 1024 * 1024)
validFiles(acceptedFiles) == SelectSeq(acceptedFiles, OnDropAccepts)

\* ---- multer: upload.array('images', 10)
\* fileFilter
\* (a filter that lets every file through)
FileFilterAccepts_Any(file) == TRUE

FileFilterAccepts(file) == startsWith(file.mimetype, ImagePrefix)
\* limits.fileSize is the largest size a file may have
\* (a limit that a file has to stay below)
WithinFileSize_Below(file) == file.size < MaxFileSize

WithinFileSize(file) == file.size <= MaxFileSize

\* The parts of the request are read in order; the first file that the filter
\* refuses or that exceeds the size limit ends the request with that error,
\* and the route's handler is never called.
MulterArray(files) ==
    LET bad == { k \in DOMAIN files :
                    ~FileFilterAccepts(files[k]) \/ ~WithinFileSize(files[k]) }
    IN  IF bad = {} THEN [ok |-> TRUE, error |-> ""]
        ELSE LET k == CHOOSE x \in bad : \A y \in bad : x <= y
             IN  [ok |-> FALSE,
                  error |-> IF ~FileFilterAccepts(files[k])
                            THEN "Only image files are allowed"
                            ELSE "LIMIT_FILE_SIZE"]

\* ---- paths and URLs
Seg(str) == <<str>>
\* path.extname: from the last dot of the name to its end; "" without a dot
\* or when the only dot is the first character
extname(name) ==
    LET dots == { k \in DOMAIN name : name[k] = "." }
    IN  IF dots = {} THEN <<>>
        ELSE LET last == CHOOSE x \in dots : \A y \in dots : y <= x
             IN  IF last = 1 THEN <<>> ELSE SubSeq(name, last, Len(name))
\* `${timestamp}-${randomSuffix}${fileExtension}`
UploadFilename(t, r, ext) == <<"file", t, r, ext>>
\* routes.ts: `images/${filename}`
UploadFilePath(filename) == <<Seg("images"), filename>>
\* part_010: userId = req.headers['x-user-id'] || 'anonymous'
HeaderUserId(header) == OrElse(header, "anonymous")
\* part_010: `${userId}/${filename}`
UserFilePath(userId, filename) == <<Seg(userId), filename>>
\* the path the upload route writes to
FilePathOf(rt, header, filename) ==
    IF rt = RoutesTs THEN UploadFilePath(filename)
    ELSE UserFilePath(HeaderUserId(header), filename)
\* the userId of imageData: routes.ts req.headers['x-user-id'] || null,
\* part_010 userId === 'anonymous' ? null : userId
ImageDataUserId(rt, header) ==
    IF rt = RoutesTs THEN OrElse(header, Null)
    ELSE IF HeaderUserId(header) = "anonymous" THEN Null ELSE HeaderUserId(header)
\* the pathname of storage.from('images').getPublicUrl(filePath)
PublicPrefix == <<Seg("storage"), Seg("v1"), Seg("object"), Seg("public"), Seg("images")>>
getPublicUrl(filePath) == PublicPrefix \o filePath

\* url.pathname.split('/storage/v1/object/public/images/')[1]: what follows
\* the first occurrence of the separator, up to its next occurrence; NoPath
\* (undefined) when the separator does not occur.  The separator ends with a
\* slash: a segment follows it.
SeparatorAt(pathname, k) ==
    /\ k + Len(PublicPrefix) <= Len(pathname)
    /\ SubSeq(pathname, k, k + Len(PublicPrefix) - 1) = PublicPrefix
SplitSecond(pathname) ==
    LET hits == { k \in DOMAIN pathname : SeparatorAt(pathname, k) }
    IN  IF hits = {} THEN NoPath
        ELSE LET first == CHOOSE x \in hits : \A y \in hits : x <= y
                 from == first + Len(PublicPrefix)
                 later == { k \in hits : k >= from }
                 upto == IF later = {} THEN Len(pathname)
                         ELSE (CHOOSE x \in later : \A y \in later : x <= y) - 1
             IN  SubSeq(pathname, from, upto)
\* `images/${filePath}`
RemovePath(filePath) == <<Seg("images")>> \o filePath
\* part_010: url.pathname.split('/').slice(6).join('/'); the pathname starts
\* with a slash, so the first of the parts is empty and the sixth segment is
\* the first that is kept
SliceSix(pathname) == SubSeq(pathname, 6, Len(pathname))
\* what the delete route takes from the stored URL, and what it then removes
ExtractedPath(rt, pathname) ==
    IF rt = RoutesTs THEN SplitSecond(pathname) ELSE SliceSix(pathname)
RemovedPath(rt, filePath) ==
    IF rt = RoutesTs THEN RemovePath(filePath) ELSE filePath

\* ---- the object store
\* storage.from('images').upload(path, ...) without upsert: refuses a path
\* that is taken
BucketUpload(b, path, content, storeOk) ==
    IF storeOk /\ path \notin DOMAIN b
    THEN [ok |-> TRUE, bucket |-> MapSet(b, path, content)]
    ELSE [ok |-> FALSE, bucket |-> b]
\* storage.from('images').remove([path])
BucketRemove(b, path, storeOk) ==
    IF storeOk THEN [ok |-> TRUE, bucket |-> MapDelete(b, path)]
    ELSE [ok |-> FALSE, bucket |-> b]

\* ---- POST /api/images/upload
InitServer ==
    /\ variant \in {MemoryImages, Database}
    /\ users = EmptyMap
    /\ images = <<>>
    /\ now = 0
    /\ lastOp = NoOp
    /\ made = {}
    /\ nCalls = 0
    /\ CatIdle
    /\ bucket = EmptyMap
    /\ reqs = [r \in 1..MaxReqs |-> NoRequest]
    /\ router \in Routers
    /\ PairIdle
    /\ GalIdle
    /\ PrevIdle
    /\ AuthIdle

\* (an answer that lists what the request had created before it failed)
Done_Partial(req, status, error, body) ==
    [req EXCEPT !.pc = "done", !.status = status, !.error = error,
                !.body = IF status = 500 THEN req.uploadedImages ELSE body,
                !.uploadedImages = <<>>, !.filePath = NoPath, !.putOk = FALSE,
                !.i = 0, !.image = NoImage]

Done(req, status, error, body) ==
    [req EXCEPT !.pc = "done", !.status = status, !.error = error, !.body = body,
                !.uploadedImages = <<>>, !.filePath = NoPath, !.putOk = FALSE,
                !.i = 0, !.image = NoImage]

\* the request has passed multer (or not) and the handler starts its loop
Received(r, files, rejected, header) ==
    LET m == MulterArray(files)
        req == [NoRequest EXCEPT !.kind = "upload", !.files = files,
                                 !.rejected = rejected, !.userId = header]
    IN  reqs' = [reqs EXCEPT ![r] =
            IF ~m.ok THEN Done(req, 500, m.error, <<>>)
            ELSE IF files = <<>> THEN Done(req, 200, "", <<>>)
            ELSE [req EXCEPT !.pc = "put", !.i = 1]]

\* requests take the slots in order
Free(r) ==
    /\ reqs[r].kind = "none"
    /\ \A q \in 1..(r - 1) : reqs[q].kind # "none"

\* files posted so far in the slots 1..n
RECURSIVE Posted(_)
Posted(n) == IF n = 0 THEN 0 ELSE Len(reqs[n].files) + Posted(n - 1)

\* a client posts the files as they are
ReceiveUpload(r, files, header) ==
    /\ Free(r)
    /\ Posted(MaxReqs) + Len(files) <= MaxPosted
    /\ Received(r, files, {}, header)
    /\ UNCHANGED <<repoVars, catVars, bucket, router, pairVars, galVars, prevVars, authVars>>

\* the gallery's drop zone: onDrop filters, and posts what is left if any
OnDrop(r, acceptedFiles) ==
    /\ Free(r)
    /\ LET valid == validFiles(acceptedFiles)
       IN  /\ valid # <<>>
           /\ Posted(MaxReqs) + Len(valid) <= MaxPosted
           /\ Received(r, valid,
                       { acceptedFiles[k] : k \in DOMAIN acceptedFiles } \
                           { valid[k] : k \in DOMAIN valid },
                       Undefined)
    /\ UNCHANGED <<repoVars, catVars, bucket, router, pairVars, galVars, prevVars, authVars>>

\* one file: name it, write it to the bucket
UploadPut(r, randomSuffix, storeOk) ==
    /\ reqs[r].kind = "upload" /\ reqs[r].pc = "put"
    /\ LET req == reqs[r]
           file == req.files[req.i]
           filename == UploadFilename(now, randomSuffix, extname(file.originalname))
           filePath == FilePathOf(router, req.userId, filename)
           res == BucketUpload(bucket, filePath, file.originalname, storeOk)
       IN  /\ bucket' = res.bucket
           /\ reqs' = [reqs EXCEPT ![r] =
                  [req EXCEPT !.pc = "record", !.filePath = filePath,
                              !.putOk = res.ok, !.nPuts = @ + 1,
                              !.outage = @ \/ ~storeOk]]
    /\ UNCHANGED <<repoVars, catVars, router, pairVars, galVars, prevVars, authVars>>

\* uploadedImages.push(image)
push_Front(uploadedImages, image) == <<image>> \o uploadedImages

push(uploadedImages, image) == Append(uploadedImages, image)

\* a failed write throws; else the record is created and the loop goes on,
\* or answers when the file was the last
UploadRecord(r, random) ==
    /\ reqs[r].kind = "upload" /\ reqs[r].pc = "record"
    /\ LET req == reqs[r]
           file == req.files[req.i]
       IN  IF ~req.putOk
           THEN /\ reqs' = [reqs EXCEPT ![r] = Done(req, 500, "Failed to upload images", <<>>)]
                /\ UNCHANGED images
           ELSE LET imageData == [filename |-> getPublicUrl(req.filePath),
                                  originalName |-> file.originalname,
                                  mimeType |-> file.mimetype,
                                  size |-> file.size,
                                  category |-> determineCategory(file.originalname),
                                  userId |-> ImageDataUserId(router, req.userId)]
                    res == createImage(variant, images, users, imageData, now, random)
                    uploaded == push(req.uploadedImages, res.image)
                    counted == [req EXCEPT !.nCreates = @ + 1]
                IN  /\ images' = res.images
                    /\ reqs' = [reqs EXCEPT ![r] =
                           IF ~res.ok
                           THEN Done(counted, 500, "Failed to upload images", <<>>)
                           ELSE IF req.i = Len(req.files)
                           THEN Done(counted, 200, "", uploaded)
                           ELSE [counted EXCEPT !.pc = "put", !.i = @ + 1,
                                                !.uploadedImages = uploaded,
                                                !.filePath = NoPath, !.putOk = FALSE]]
    /\ UNCHANGED <<variant, users, now, lastOp, made, nCalls, catVars, bucket, router, pairVars, galVars, prevVars, authVars>>

\* ---- DELETE /api/images/:id
\* storage.getImage(id); 404 when there is none
DeleteLookup(r, id) ==
    /\ Free(r)
    /\ LET got == getImage(variant, images, id)
           req == [NoRequest EXCEPT !.kind = "delete", !.id = id]
       IN  reqs' = [reqs EXCEPT ![r] =
               IF ~got.found THEN Done(req, 404, "Image not found", <<>>)
               ELSE LET filePath == ExtractedPath(router, got.image.filename)
                    IN  [req EXCEPT !.image = got.image, !.filePath = filePath,
                                    !.pc = IF filePath # NoPath THEN "remove"
                                           ELSE "unlink"]]
    /\ UNCHANGED <<repoVars, catVars, bucket, router, pairVars, galVars, prevVars, authVars>>

\* remove the binary; an error is logged and nothing more
DeleteRemove(r, storeOk) ==
    /\ reqs[r].kind = "delete" /\ reqs[r].pc = "remove"
    /\ LET res == BucketRemove(bucket, RemovedPath(router, reqs[r].filePath), storeOk)
       IN  /\ bucket' = res.bucket
           /\ reqs' = [reqs EXCEPT ![r] = [@ EXCEPT !.pc = "unlink", !.putOk = res.ok,
                                                    !.outage = ~storeOk]]
    /\ UNCHANGED <<repoVars, catVars, router, pairVars, galVars, prevVars, authVars>>

\* storage.deleteImage(id): 200 when it deleted, 500 when it did not
\* (a route that gives up when the binary could not be removed)
DeleteRecord_Blocked(r) ==
    /\ reqs[r].kind = "delete" /\ reqs[r].pc = "unlink"
    /\ LET res == IF reqs[r].outage
                  THEN [deleted |-> FALSE, images |-> images]
                  ELSE deleteImage(variant, images, reqs[r].id)
       IN  /\ images' = res.images
           /\ reqs' = [reqs EXCEPT ![r] =
                  IF res.deleted THEN Done(@, 200, "Image deleted successfully", <<>>)
                  ELSE Done(@, 500, "Failed to delete image", <<>>)]
    /\ UNCHANGED <<variant, users, now, lastOp, made, nCalls, catVars, bucket, router, pairVars, galVars, prevVars, authVars>>

DeleteRecord(r) ==
    /\ reqs[r].kind = "delete" /\ reqs[r].pc = "unlink"
    /\ LET res == deleteImage(variant, images, reqs[r].id)
       IN  /\ images' = res.images
           /\ reqs' = [reqs EXCEPT ![r] =
                  IF res.deleted THEN Done(@, 200, "Image deleted successfully", <<>>)
                  ELSE Done(@, 500, "Failed to delete image", <<>>)]
    /\ UNCHANGED <<variant, users, now, lastOp, made, nCalls, catVars, bucket, router, pairVars, galVars, prevVars, authVars>>

\* the clock of the server
ServerTick ==
    /\ now < MaxTime
    /\ now' = now + 1
    /\ UNCHANGED <<variant, users, images, lastOp, made, nCalls, catVars, srvVars, pairVars, galVars, prevVars, authVars>>

\* ids a DELETE request can name
RequestIds == ImgIds(images) \cup {BogusId}

NextServer ==
    \/ ServerTick
    \/ \E r \in 1..MaxReqs, fs \in FileLists(MaxFiles), h \in Headers :
           ReceiveUpload(r, fs, h)
    \/ \E r \in 1..MaxReqs, fs \in FileLists(MaxFiles) : OnDrop(r, fs)
    \/ \E r \in 1..MaxReqs, x \in 1..MaxRand, ok \in BOOLEAN : UploadPut(r, x, ok)
    \/ \E r \in 1..MaxReqs, x \in 1..MaxRand : UploadRecord(r, x)
    \/ \E r \in 1..MaxReqs, id \in RequestIds : DeleteLookup(r, id)
    \/ \E r \in 1..MaxReqs, ok \in BOOLEAN : DeleteRemove(r, ok)
    \/ \E r \in 1..MaxReqs : DeleteRecord(r)

SpecServer == InitServer /\ [][NextServer]_vars

\* ------------------------------------------------ claims on the uploads
UploadRequests == { r \in 1..MaxReqs : reqs[r].kind = "upload" }
ValidationErrors == {"Only image files are allowed", "LIMIT_FILE_SIZE"}
TenMiB == 10 * 1024 * 1024
IsImageType(mimetype) == startsWith(mimetype, ImagePrefix)

\* the records a request has created and answered or will answer with; the
\* k-th is the record of the k-th file
CreatedBy(req) == IF req.pc = "done" THEN req.body ELSE req.uploadedImages
\* a DELETE request has removed the record id
DeletedByRequest(id) ==
    \E q \in 1..MaxReqs :
        /\ reqs[q].kind = "delete" /\ reqs[q].pc = "done"
        /\ reqs[q].status = 200 /\ reqs[q].id = id
SameFile(image, file) ==
    /\ image.originalName = file.originalname
    /\ image.mimeType = file.mimetype
    /\ image.size = file.size
IdsDistinct ==
    \A j, k \in DOMAIN images : images[j].id = images[k].id => j = k

\* C3: whatever uploads and deletes have run, the record of every file that
\* was uploaded successfully (and that no delete has removed) is in the
\* repository with the file's originalName, mimeType and size, and no two
\* records of the repository have the same id.
C3_UploadAddsMatchingRecord ==
    /\ IdsDistinct
    /\ \A r \in UploadRequests :
         (reqs[r].pc # "done" \/ reqs[r].status = 200) =>
         \A k \in DOMAIN CreatedBy(reqs[r]) :
            LET id == CreatedBy(reqs[r])[k].id
            IN  \/ DeletedByRequest(id)
                \/ /\ ImgHas(images, id)
                   /\ SameFile(ImgGet(images, id), reqs[r].files[k])

\* C9: a request that carries a file whose MIME type does not start with
\* image/ ends at once with a validation error, has written nothing to the
\* object store and created no record; no record and no stored object comes
\* from such a file.
C9_NonImageRejected ==
    /\ \A r \in UploadRequests :
         (\E k \in DOMAIN reqs[r].files : ~IsImageType(reqs[r].files[k].mimetype)) =>
            /\ reqs[r].pc = "done"
            /\ reqs[r].status = 500
            /\ reqs[r].error \in ValidationErrors
            /\ reqs[r].nPuts = 0
            /\ reqs[r].nCreates = 0
    /\ \A k \in DOMAIN images : IsImageType(images[k].mimeType)
    /\ \A f \in Files, path \in DOMAIN bucket :
         ~IsImageType(f.mimetype) => bucket[path] # f.originalname

\* a request with an image and then a text file was turned down by the filter
C9_Witness ==
    \E r \in UploadRequests :
        /\ Len(reqs[r].files) = 2
        /\ IsImageType(reqs[r].files[1].mimetype)
        /\ ~IsImageType(reqs[r].files[2].mimetype)
        /\ reqs[r].error = "Only image files are allowed"
        /\ reqs[r].status = 500

PassesValidation(file) == IsImageType(file.mimetype) /\ file.size <= TenMiB

\* C11: a file that passes validation is not turned down because another
\* file of its batch fails validation: a request that holds a passing file
\* does not end with a validation error, and when it ends without a failure
\* of the stores each passing file has its record in the answer.
C11_OnlyFailingFileRejected ==
    \A r \in UploadRequests :
        (\E k \in DOMAIN reqs[r].files : PassesValidation(reqs[r].files[k])) =>
            /\ reqs[r].error \notin ValidationErrors
            /\ (reqs[r].pc = "done" /\ reqs[r].status = 200) =>
                 \A k \in DOMAIN reqs[r].files :
                    PassesValidation(reqs[r].files[k]) =>
                       \E j \in DOMAIN reqs[r].body :
                          SameFile(reqs[r].body[j], reqs[r].files[k])

\* C12: when the write to the object store or the createImage call of the
\* k-th file of a batch fails, the request ends with status 500 and an answer
\* without any image; it has then made k writes to the object store and no
\* createImage call after the k-th file, that step leaves bucket and records
\* as they were, and a request that has answered takes no further step.
C12_FailedBatchStops ==
    [][\A r \in 1..MaxReqs :
         /\ ( /\ reqs[r].kind = "upload" /\ reqs[r].pc = "record"
              /\ reqs'[r] # reqs[r]
              /\ (~reqs[r].putOk \/ reqs'[r].status = 500) ) =>
                 /\ reqs'[r].pc = "done"
                 /\ reqs'[r].status = 500
                 /\ reqs'[r].body = <<>>
                 /\ reqs'[r].nPuts = reqs[r].i
                 /\ reqs'[r].nCreates = IF reqs[r].putOk THEN reqs[r].i ELSE reqs[r].i - 1
                 /\ bucket' = bucket
                 /\ images' = images
         /\ reqs[r].pc = "done" => reqs'[r] = reqs[r]
      ]_vars

\* the write of the first of two files failed: the request answered 500 with
\* no image and the second file was never written
C12_Witness ==
    \E r \in UploadRequests :
        /\ reqs[r].pc = "done" /\ reqs[r].status = 500
        /\ reqs[r].error = "Failed to upload images"
        /\ Len(reqs[r].files) = 2
        /\ reqs[r].nPuts = 1 /\ reqs[r].nCreates = 0
        /\ reqs[r].body = <<>>

\* the object a record's stored URL points to: the path after
\* /storage/v1/object/public/images/
BinaryPath(image) ==
    SubSeq(image.filename, Len(PublicPrefix) + 1, Len(image.filename))

\* C13: in every state, the binary of every record of the repository is in
\* the object store.
C13_RecordHasBinary ==
    \A k \in DOMAIN images : BinaryPath(images[k]) \in DOMAIN bucket

\* the x-user-id of a request names nobody or somebody the repository can
\* take as the owner of a record
KnownUser(header) ==
    header = Undefined \/ variant # Database \/ header \in DOMAIN users
\* the request went through the upload handler and no call of the object
\* store failed for a reason of the store
RanWithoutOutage(r) ==
    /\ reqs[r].kind = "upload" /\ reqs[r].pc = "done"
    /\ reqs[r].files # <<>>
    /\ reqs[r].error \notin ValidationErrors
    /\ ~reqs[r].outage

\* C14: two upload requests with the same user id, whatever their
\* interleaving and whatever ids and filenames were drawn, both answer 200;
\* all their records are in the repository with distinct ids and distinct
\* stored filenames, each with the fields of its file and with its own binary
\* in the object store.
C14_ConcurrentUploadsBothSucceed ==
    \A r, q \in UploadRequests :
        ( /\ r # q
          /\ reqs[r].userId = reqs[q].userId /\ KnownUser(reqs[r].userId)
          /\ RanWithoutOutage(r) /\ RanWithoutOutage(q) ) =>
            LET all == reqs[r].body \o reqs[q].body
                files == reqs[r].files \o reqs[q].files
            IN  /\ reqs[r].status = 200 /\ reqs[q].status = 200
                /\ \A j, k \in DOMAIN all :
                     j # k => all[j].id # all[k].id /\ all[j].filename # all[k].filename
                /\ \A k \in DOMAIN all :
                     /\ ImgHas(images, all[k].id)
                     /\ SameFile(ImgGet(images, all[k].id), files[k])
                     /\ BinaryPath(all[k]) \in DOMAIN bucket
                     /\ bucket[BinaryPath(all[k])] = files[k].originalname

\* ================================================= deletes of a stored image
\* The server after one upload of face.jpg has been answered: its record is
\* in the repository and its binary in the bucket, as the upload route
\* leaves them.
StoredFile == CHOOSE f \in Files : f.size = 10
StoredPath(rt) ==
    FilePathOf(rt, Undefined, UploadFilename(0, 1, extname(StoredFile.originalname)))
StoredRecord(v, rt) ==
    createImage(v, <<>>, EmptyMap,
                [filename |-> getPublicUrl(StoredPath(rt)),
                 originalName |-> StoredFile.originalname,
                 mimeType |-> StoredFile.mimetype,
                 size |-> StoredFile.size,
                 category |-> determineCategory(StoredFile.originalname),
                 userId |-> ImageDataUserId(rt, Undefined)],
                0, 1).image

InitDeletes ==
    /\ variant \in {MemoryImages, Database}
    /\ router \in Routers
    /\ users = EmptyMap
    /\ images = <<StoredRecord(variant, router)>>
    /\ bucket = MapSet(EmptyMap, StoredPath(router), StoredFile.originalname)
    /\ reqs = [r \in 1..MaxReqs |-> NoRequest]
    /\ now = 0
    /\ lastOp = NoOp
    /\ made = {}
    /\ nCalls = 0
    /\ CatIdle
    /\ PairIdle
    /\ GalIdle
    /\ PrevIdle
    /\ AuthIdle

NextDeletes ==
    \/ ServerTick
    \/ \E r \in 1..MaxReqs, id \in RequestIds : DeleteLookup(r, id)
    \/ \E r \in 1..MaxReqs, ok \in BOOLEAN : DeleteRemove(r, ok)
    \/ \E r \in 1..MaxReqs : DeleteRecord(r)

SpecDeletes == InitDeletes /\ [][NextDeletes]_vars

DeleteRequests == { r \in 1..MaxReqs : reqs[r].kind = "delete" }

\* C15: when no call of the object store fails, a DELETE request answers 200
\* or 404, and the record of an id is removed by at most one request: two
\* requests for the same id do not both answer 200, and none answers 500.
C15_DeleteAnswers ==
    (\A q \in DeleteRequests : ~reqs[q].outage) =>
        /\ \A r \in DeleteRequests :
             reqs[r].pc = "done" => reqs[r].status \in {200, 404}
        /\ \A r, q \in DeleteRequests :
             (r # q /\ reqs[r].id = reqs[q].id /\ reqs[r].status = 200) =>
                 reqs[q].status # 200

MaxShown == 3       \* images in the gallery's query data

\* const categories = ["All", "Landscape", "Portrait", "Abstract", "Nature"]
All == <<"A", "l", "l">>
categories == <<All, <<"L", "a", "n", "d", "s", "c", "a", "p", "e">>, <<"P", "o", "r", "t", "r", "a", "i", "t">>,
                <<"A", "b", "s", "t", "r", "a", "c", "t">>, <<"N", "a", "t", "u", "r", "e">>>>

\* the characters of a category value of a record
CategoryText(c) ==
    CASE c = "landscape" -> <<"l", "a", "n", "d", "s", "c", "a", "p", "e">>
      [] c = "portrait" -> <<"p", "o", "r", "t", "r", "a", "i", "t">>
      [] c = "abstract" -> <<"a", "b", "s", "t", "r", "a", "c", "t">>
      [] c = "nature" -> <<"n", "a", "t", "u", "r", "e">>
      [] c = "Portrait" -> <<"P", "o", "r", "t", "r", "a", "i", "t">>

\* image.category?.f(...): the call is made only when the category is
\* neither null nor undefined; the expression is undefined otherwise, which
\* equals no string and counts as false
IsNullish(v) == v \in {Null, Undefined}
\* image.category.toLowerCase()
CategoryLower(image) == toLowerCase(CategoryText(image.category))

\* (a filter that keeps an image when either condition holds)
filteredImages_Either(imgs, selectedCategory, searchQuery) ==
    LET keep(image) ==
            LET matchesCategory ==
                    \/ selectedCategory = All
                    \/ /\ ~IsNullish(image.category)
                       /\ CategoryLower(image) = toLowerCase(selectedCategory)
                matchesSearch ==
                    \/ searchQuery = <<>>
                    \/ includes(toLowerCase(image.originalName), toLowerCase(searchQuery))
                    \/ /\ ~IsNullish(image.category)
                       /\ includes(CategoryLower(image), toLowerCase(searchQuery))
            IN  matchesCategory \/ matchesSearch
    IN  SelectSeq(imgs, keep)

\* images.filter(image => matchesCategory && matchesSearch)
filteredImages(imgs, selectedCategory, searchQuery) ==
    LET keep(image) ==
            LET matchesCategory ==
                    \/ selectedCategory = All
                    \/ /\ ~IsNullish(image.category)
                       /\ CategoryLower(image) = toLowerCase(selectedCategory)
                matchesSearch ==
                    \/ searchQuery = <<>>
                    \/ includes(toLowerCase(image.originalName), toLowerCase(searchQuery))
                    \/ /\ ~IsNullish(image.category)
                       /\ includes(CategoryLower(image), toLowerCase(searchQuery))
            IN  matchesCategory /\ matchesSearch
    IN  SelectSeq(imgs, keep)

\* records the query GET /api/images can hold
Shown(n, name, cat) ==
    [id |-> TimeRandomId(0, n), filename |-> <<>>, originalName |-> name,
     mimeType |-> <<"i", "m", "a", "g", "e", "/", "p", "n", "g">>, size |-> 10, category |-> cat,
     userId |-> Null, uploadedAt |-> 0]
ShownImages ==
    { Shown(1, <<"h", "i", "l", "l", ".", "p", "n", "g">>, "landscape"),
      Shown(2, <<"F", "a", "c", "e", ".", "J", "P", "G">>, "portrait"),
      Shown(3, <<"t", "r", "e", "e", ".", "p", "n", "g">>, "nature"),
      Shown(4, <<"a", "r", "t", ".", "p", "n", "g">>, Null),
      Shown(5, <<"p", "o", "r", "t", ".", "p", "n", "g">>, "Portrait") }
RECURSIVE ShownLists(_)
ShownLists(n) ==
    IF n = 0 THEN {<<>>}
    ELSE LET shorter == ShownLists(n - 1)
         IN  shorter \cup { Append(l, g) : l \in shorter, g \in ShownImages }

\* what the user types into the search box
Queries ==
    { <<>>, <<"f", "a", "c", "e">>, <<"P", "N", "G">>, <<"p", "o", "r", "t">>,
      <<"n", "a", "t", "u", "r", "e">>, <<"z", "z", "z">> }

InitFilter ==
    /\ \E l \in ShownLists(MaxShown) :
           gallery = [NoGallery EXCEPT !.images = l, !.filtered = l]
    /\ variant = MemoryImages
    /\ users = EmptyMap
    /\ images = <<>>
    /\ now = 0
    /\ lastOp = NoOp
    /\ made = {}
    /\ nCalls = 0
    /\ CatIdle
    /\ SrvIdle
    /\ PairIdle
    /\ PrevIdle
    /\ AuthIdle

\* onClick={() => setSelectedCategory(category)}, and the render after it
SetSelectedCategory(c) ==
    /\ gallery' = [gallery EXCEPT !.selectedCategory = c,
                      !.filtered = filteredImages(gallery.images, c, gallery.searchQuery)]
    /\ UNCHANGED <<repoVars, catVars, srvVars, pairVars, prevVars, authVars>>

\* handleSearch, and the render after it
handleSearch(query) ==
    /\ gallery' = [gallery EXCEPT !.searchQuery = query,
                      !.filtered = filteredImages(gallery.images,
                                                  gallery.selectedCategory, query)]
    /\ UNCHANGED <<repoVars, catVars, srvVars, pairVars, prevVars, authVars>>

NextFilter ==
    \/ \E k \in DOMAIN categories : SetSelectedCategory(categories[k])
    \/ \E q \in Queries : handleSearch(q)

SpecFilter == InitFilter /\ [][NextFilter]_vars

\* ---- the filter claim
EqualIgnoringCase(a, b) ==
    Len(a) = Len(b) /\ \A i \in DOMAIN a : SameLetter(a[i], b[i])
HasCategory(image) == image.category \notin {Null, Undefined}
\* the two conditions, said without the code's lower-casing
Satisfies(image, filter, query) ==
    /\ \/ filter = All
       \/ HasCategory(image) /\ EqualIgnoringCase(CategoryText(image.category), filter)
    /\ \/ query = <<>>
       \/ ContainsIgnoringCase(image.originalName, query)
       \/ HasCategory(image) /\ ContainsIgnoringCase(CategoryText(image.category), query)
\* the positions of s that satisfy P, in order
RECURSIVE Kept(_, _, _)
Kept(s, filter, query) ==
    IF s = <<>> THEN <<>>
    ELSE IF Satisfies(Head(s), filter, query)
         THEN <<Head(s)>> \o Kept(Tail(s), filter, query)
         ELSE Kept(Tail(s), filter, query)

\* C18: the filtered list is the fetched images, in their order, that satisfy
\* both the category condition and the search condition; with filter "All"
\* and a query found in the filename of one image only (and in no category),
\* it is that image alone.
C18_FilterIsConjunction ==
    /\ gallery.filtered =
          Kept(gallery.images, gallery.selectedCategory, gallery.searchQuery)
    /\ \A k \in DOMAIN gallery.images :
          ( /\ gallery.selectedCategory = All
            /\ gallery.searchQuery # <<>>
            /\ \A j \in DOMAIN gallery.images :
                  /\ ContainsIgnoringCase(gallery.images[j].originalName,
                                          gallery.searchQuery) <=> j = k
                  /\ HasCategory(gallery.images[j]) =>
                        ~ContainsIgnoringCase(CategoryText(gallery.images[j].category),
                                              gallery.searchQuery) ) =>
             gallery.filtered = <<gallery.images[k]>>

\* landscape, portrait and nature images, filter "All", query "face": only
\* the portrait image Face.JPG is listed
C18_Witness ==
    /\ Len(gallery.images) = 3
    /\ { gallery.images[k].category : k \in DOMAIN gallery.images } =
          {"landscape", "portrait", "nature"}
    /\ gallery.selectedCategory = All
    /\ gallery.searchQuery = <<"f", "a", "c", "e">>
    /\ Len(gallery.filtered) = 1
    /\ gallery.filtered[1].category = "portrait"

\* ==================================================== bulk delete
MaxStored == 3      \* images stored when the gallery is opened
MaxLoops == 1       \* bulk deletes confirmed in one behaviour
MaxElsewhere == 1   \* DELETE requests of other clients in one behaviour

\* DELETE /api/images/:id handled from its first line to its answer: the
\* requests of one loop are awaited one by one
DeleteRoute(v, rt, imgs, bkt, id, storeOk) ==
    LET got == getImage(v, imgs, id)
    IN  IF ~got.found THEN [status |-> 404, images |-> imgs, bucket |-> bkt]
        ELSE LET filePath == ExtractedPath(rt, got.image.filename)
                 removed == IF filePath # NoPath
                            THEN BucketRemove(bkt, RemovedPath(rt, filePath), storeOk).bucket
                            ELSE bkt
                 res == deleteImage(v, imgs, id)
             IN  [status |-> IF res.deleted THEN 200 ELSE 500,
                  images |-> res.images, bucket |-> removed]

\* apiRequest (client/src/lib/queryClient): resolves with the response when
\* the request was answered with a 2xx status and throws otherwise; it also
\* throws when the request could not be sent
apiRequestThrows(delivered, status) == ~delivered \/ status < 200 \/ status >= 300

\* the server after n uploads have been answered: file k was stored with
\* random suffix k and recorded with random id k
StoredFiles == <<StoredFile, CHOOSE f \in Files : f.size = MaxFileSize, StoredFile>>
RECURSIVE StoredState(_, _, _)
StoredState(v, rt, n) ==
    IF n = 0 THEN [images |-> <<>>, bucket |-> EmptyMap]
    ELSE LET prev == StoredState(v, rt, n - 1)
             file == StoredFiles[n]
             path == FilePathOf(rt, Undefined,
                                UploadFilename(0, n, extname(file.originalname)))
             made1 == createImage(v, prev.images, EmptyMap,
                          [filename |-> getPublicUrl(path),
                           originalName |-> file.originalname,
                           mimeType |-> file.mimetype,
                           size |-> file.size,
                           category |-> determineCategory(file.originalname),
                           userId |-> ImageDataUserId(rt, Undefined)],
                          0, n)
         IN  [images |-> made1.images,
              bucket |-> MapSet(prev.bucket, path, file.originalname)]

\* the gallery has fetched the stored images; the server runs with the
\* storage that storage.ts exports, new MemoryStorage()
InitBulk ==
    /\ variant = MemoryImages
    /\ router \in Routers
    /\ users = EmptyMap
    /\ images = StoredState(variant, router, MaxStored).images
    /\ bucket = StoredState(variant, router, MaxStored).bucket
    /\ reqs = [r \in 1..MaxReqs |-> NoRequest]
    /\ \E list \in getImages(variant, images) :
           gallery = [NoGallery EXCEPT !.images = list, !.filtered = list]
    /\ now = 0
    /\ lastOp = NoOp
    /\ made = {}
    /\ nCalls = 0
    /\ CatIdle
    /\ PairIdle
    /\ PrevIdle
    /\ AuthIdle

\* an insertion-ordered Set of ids, as a sequence without repetition
SetHas(set, x) == \E k \in DOMAIN set : set[k] = x
SetDelete(set, x) == SelectSeq(set, LAMBDA y : y # x)
SetAdd(set, x) == IF SetHas(set, x) THEN set ELSE Append(set, x)

\* (a toggle that keeps the selection)
toggleSelectionMode_KeepsSelection ==
    /\ gallery' = [gallery EXCEPT !.selectionMode = ~gallery.selectionMode]
    /\ UNCHANGED <<repoVars, catVars, srvVars, pairVars, prevVars, authVars>>

\* the "Select" / "Cancel" button
toggleSelectionMode ==
    /\ gallery' = [gallery EXCEPT !.selectionMode = ~gallery.selectionMode,
                                  !.selectedImages = <<>>]
    /\ UNCHANGED <<repoVars, catVars, srvVars, pairVars, prevVars, authVars>>

\* the checkbox of a listed image, shown in selection mode
toggleImageSelection(imageId) ==
    /\ gallery.selectionMode
    /\ \E k \in DOMAIN gallery.filtered : gallery.filtered[k].id = imageId
    /\ gallery' = [gallery EXCEPT !.selectedImages =
                      IF SetHas(@, imageId) THEN SetDelete(@, imageId)
                      ELSE SetAdd(@, imageId)]
    /\ UNCHANGED <<repoVars, catVars, srvVars, pairVars, prevVars, authVars>>

\* "Select All", shown in selection mode
selectAllImages ==
    /\ gallery.selectionMode
    /\ gallery' = [gallery EXCEPT !.selectedImages =
                      [k \in DOMAIN gallery.filtered |-> gallery.filtered[k].id]]
    /\ UNCHANGED <<repoVars, catVars, srvVars, pairVars, prevVars, authVars>>

\* "Deselect All", shown in selection mode
deselectAllImages ==
    /\ gallery.selectionMode
    /\ gallery' = [gallery EXCEPT !.selectedImages = <<>>]
    /\ UNCHANGED <<repoVars, catVars, srvVars, pairVars, prevVars, authVars>>

\* "Delete Selected", shown in selection mode when something is selected:
\* opens the dialog; its onConfirm holds the selection of this render
handleBulkDelete ==
    /\ gallery.selectionMode
    /\ gallery.selectedImages # <<>>
    /\ gallery.confirm = "none"
    /\ gallery' = [gallery EXCEPT !.confirm = "bulk",
                                  !.captured = gallery.selectedImages]
    /\ UNCHANGED <<repoVars, catVars, srvVars, pairVars, prevVars, authVars>>

\* the dialog's confirm button: onConfirm starts its loop
ConfirmBulkDelete ==
    /\ gallery.confirm = "bulk"
    /\ gallery.pc = "idle"
    /\ gallery.loops < MaxLoops
    /\ gallery' = [gallery EXCEPT !.confirm = "none", !.pc = "deleting",
                                  !.loop = gallery.captured,
                                  !.queue = gallery.captured, !.issued = <<>>,
                                  !.toast = "", !.loops = @ + 1]
    /\ UNCHANGED <<repoVars, catVars, srvVars, pairVars, prevVars, authVars>>

\* one turn of the loop in onConfirm: await apiRequest('DELETE', ...) for the
\* next id; a throw leaves the loop for the catch block, the end of the loop
\* invalidates the query, clears the selection and leaves selection mode
\* (a loop that goes on with the next id after a failed request)
BulkDeleteRequest_KeepsGoing(delivered, storeOk) ==
    /\ gallery.pc = "deleting"
    /\ LET imageId == Head(gallery.queue)
           res == IF delivered
                  THEN DeleteRoute(variant, router, images, bucket, imageId, storeOk)
                  ELSE [status |-> 0, images |-> images, bucket |-> bucket]
           throws == apiRequestThrows(delivered, res.status)
           issued == Append(gallery.issued, [id |-> imageId, ok |-> ~throws])
       IN  /\ images' = res.images
           /\ bucket' = res.bucket
           /\ gallery' =
                  IF throws
                  THEN IF Tail(gallery.queue) = <<>>
                  THEN [gallery EXCEPT !.issued = issued, !.pc = "idle",
                                       !.queue = <<>>, !.toast = "Delete failed"]
                  ELSE [gallery EXCEPT !.issued = issued, !.queue = Tail(@)]
                  ELSE IF Tail(gallery.queue) = <<>>
                  THEN [gallery EXCEPT !.issued = issued, !.pc = "idle",
                                       !.queue = <<>>, !.stale = TRUE,
                                       !.selectedImages = <<>>,
                                       !.selectionMode = FALSE,
                                       !.toast = "Images deleted"]
                  ELSE [gallery EXCEPT !.issued = issued, !.queue = Tail(@)]
    /\ UNCHANGED <<variant, users, now, lastOp, made, nCalls, catVars, reqs, router, pairVars, prevVars, authVars>>

BulkDeleteRequest(delivered, storeOk) ==
    /\ gallery.pc = "deleting"
    /\ LET imageId == Head(gallery.queue)
           res == IF delivered
                  THEN DeleteRoute(variant, router, images, bucket, imageId, storeOk)
                  ELSE [status |-> 0, images |-> images, bucket |-> bucket]
           throws == apiRequestThrows(delivered, res.status)
           issued == Append(gallery.issued, [id |-> imageId, ok |-> ~throws])
       IN  /\ images' = res.images
           /\ bucket' = res.bucket
           /\ gallery' =
                  IF throws
                  THEN [gallery EXCEPT !.issued = issued, !.pc = "idle",
                                       !.queue = <<>>, !.toast = "Delete failed"]
                  ELSE IF Tail(gallery.queue) = <<>>
                  THEN [gallery EXCEPT !.issued = issued, !.pc = "idle",
                                       !.queue = <<>>, !.stale = TRUE,
                                       !.selectedImages = <<>>,
                                       !.selectionMode = FALSE,
                                       !.toast = "Images deleted"]
                  ELSE [gallery EXCEPT !.issued = issued, !.queue = Tail(@)]
    /\ UNCHANGED <<variant, users, now, lastOp, made, nCalls, catVars, reqs, router, pairVars, prevVars, authVars>>

\* the query is fetched again after it was invalidated
Refetch ==
    /\ gallery.stale
    /\ \E list \in getImages(variant, images) :
           gallery' = [gallery EXCEPT !.images = list, !.stale = FALSE,
                          !.filtered = filteredImages(list, gallery.selectedCategory,
                                                      gallery.searchQuery)]
    /\ UNCHANGED <<repoVars, catVars, srvVars, pairVars, prevVars, authVars>>

\* another client has an image deleted
ElsewhereDelete(id, storeOk) ==
    /\ gallery.elsewhere < MaxElsewhere
    /\ LET res == DeleteRoute(variant, router, images, bucket, id, storeOk)
       IN  /\ images' = res.images
           /\ bucket' = res.bucket
    /\ gallery' = [gallery EXCEPT !.elsewhere = @ + 1]
    /\ UNCHANGED <<variant, users, now, lastOp, made, nCalls, catVars, reqs, router, pairVars, prevVars, authVars>>

NextBulk ==
    \/ toggleSelectionMode
    \/ \E id \in ImgIds(gallery.images) : toggleImageSelection(id)
    \/ selectAllImages
    \/ deselectAllImages
    \/ handleBulkDelete
    \/ ConfirmBulkDelete
    \/ \E delivered \in BOOLEAN, storeOk \in BOOLEAN : BulkDeleteRequest(delivered, storeOk)
    \/ Refetch
    \/ \E id \in ImgIds(images), storeOk \in BOOLEAN : ElsewhereDelete(id, storeOk)

SpecBulk == InitBulk /\ [][NextBulk]_vars

\* C17: the bulk delete sends its DELETE requests for the selected ids in
\* order, one at a time; only the last request sent can have failed; after a
\* failed request the loop has ended and the ids after it were never
\* requested; the images of the requests that succeeded are gone from the
\* repository and stay gone.
C17_BulkDeleteSequential ==
    LET g == gallery
        n == Len(g.issued)
    IN  /\ n <= Len(g.loop)
        /\ \A k \in 1..n : g.issued[k].id = g.loop[k]
        /\ \A k \in 1..(n - 1) : g.issued[k].ok
        /\ \A k \in 1..n : g.issued[k].ok => ~ImgHas(images, g.issued[k].id)
        /\ g.pc = "deleting" =>
              /\ \A k \in 1..n : g.issued[k].ok
              /\ g.queue = SubSeq(g.loop, n + 1, Len(g.loop))
              /\ g.queue # <<>>
        /\ g.pc = "idle" => g.queue = <<>>
        /\ (n > 0 /\ ~g.issued[n].ok) => g.pc = "idle" /\ g.toast = "Delete failed"
        /\ g.toast = "Images deleted" =>
              n = Len(g.loop) /\ \A k \in 1..n : g.issued[k].ok

\* three images selected: the first was deleted, the request for the second
\* failed, no request was sent for the third, which is still stored
C17_Witness ==
    /\ Len(gallery.loop) = 3
    /\ Len(gallery.issued) = 2
    /\ gallery.issued[1].ok /\ ~gallery.issued[2].ok
    /\ gallery.pc = "idle" /\ gallery.toast = "Delete failed"
    /\ ~ImgHas(images, gallery.loop[1])
    /\ ImgHas(images, gallery.loop[2])
    /\ ImgHas(images, gallery.loop[3])

\* C19: an upload request that was answered with success carries exactly one
\* Image record per file it was sent with, and the i-th record has the
\* originalName, mimeType and size of the i-th file.
C19_AnswerFollowsInput ==
    \A r \in UploadRequests :
        (reqs[r].pc = "done" /\ reqs[r].status = 200) =>
            /\ Len(reqs[r].body) = Len(reqs[r].files)
            /\ \A i \in 1..Len(reqs[r].files) :
                   SameFile(reqs[r].body[i], reqs[r].files[i])

\* a request with two different files was answered with success
C19_Witness ==
    \E r \in UploadRequests :
        /\ reqs[r].pc = "done" /\ reqs[r].status = 200
        /\ Len(reqs[r].files) = 2
        /\ Len(reqs[r].body) = 2
        /\ ~SameFile(reqs[r].body[1], reqs[r].files[2])

\* C20: a stored Image record never changes: over every step, a record whose
\* id is still stored afterwards has the fields it had before the step, and
\* a record leaves the store only through deleteImage called with its id.
C20_RecordImmutable ==
    [][\A id \in ImgIds(images) :
           /\ ImgHas(images', id) => ImgGet(images', id) = ImgGet(images, id)
           /\ ~ImgHas(images', id) =>
                  lastOp'.op = "deleteImage" /\ lastOp'.id = id]_vars

MaxPreview == 3     \* images in the list the preview is given
MaxSteps == 4       \* previous/next steps and list changes in one behaviour

\* the lists the gallery hands to the preview: up to MaxPreview images
PreviewLists ==
    LET all == <<Shown(1, <<"h", "i", "l", "l", ".", "p", "n", "g">>, "landscape"),
                 Shown(2, <<"F", "a", "c", "e", ".", "J", "P", "G">>, "portrait"),
                 Shown(3, <<"t", "r", "e", "e", ".", "p", "n", "g">>, "nature")>>
    IN  { SubSeq(all, 1, n) : n \in 0..MaxPreview }

\* images.findIndex(img => img.id === image.id)
findIndex(imgs, id) ==
    IF \E k \in DOMAIN imgs : imgs[k].id = id
    THEN (CHOOSE k \in DOMAIN imgs : imgs[k].id = id /\ \A j \in 1..(k - 1) : imgs[j].id # id) - 1
    ELSE -1

\* useEffect(..., [image, images]): the index follows the image prop
IndexEffect(image, imgs, currentIndex) ==
    IF image # NoImage /\ Len(imgs) > 0
    THEN LET index == findIndex(imgs, image.id)
         IN  IF index >= 0 THEN index ELSE 0
    ELSE currentIndex

\* const currentImage = images[currentIndex] || image
currentImage(p) ==
    IF p.currentIndex + 1 \in DOMAIN p.images THEN p.images[p.currentIndex + 1]
    ELSE p.image

InitPreview ==
    /\ variant = MemoryImages
    /\ users = EmptyMap
    /\ images = <<>>
    /\ now = 0
    /\ lastOp = NoOp
    /\ made = {}
    /\ nCalls = 0
    /\ CatIdle
    /\ SrvIdle
    /\ PairIdle
    /\ GalIdle
    /\ AuthIdle
    /\ \E l \in PreviewLists : preview = [NoPreview EXCEPT !.images = l]

\* handleImageView(image) of the gallery: setPreviewImage, setIsPreviewOpen;
\* the index effect runs as the props change
handleImageView(k) ==
    /\ ~preview.isOpen
    /\ k \in DOMAIN preview.images
    /\ preview' = [preview EXCEPT
           !.image = preview.images[k], !.isOpen = TRUE,
           !.currentIndex = IndexEffect(preview.images[k], preview.images, @),
           !.last = "view", !.from = preview.currentIndex]
    /\ UNCHANGED <<repoVars, catVars, srvVars, pairVars, galVars, authVars>>

\* the ChevronLeft button or the ArrowLeft key while the preview is open
handlePrevious ==
    /\ preview.isOpen
    /\ preview.steps < MaxSteps
    /\ preview' = [preview EXCEPT
           !.currentIndex = IF Len(preview.images) > 1
                            THEN (IF preview.currentIndex > 0
                                  THEN preview.currentIndex - 1
                                  ELSE Len(preview.images) - 1)
                            ELSE @,
           !.last = "previous", !.from = preview.currentIndex, !.steps = @ + 1]
    /\ UNCHANGED <<repoVars, catVars, srvVars, pairVars, galVars, authVars>>

\* the ChevronRight button or the ArrowRight key while the preview is open
handleNext ==
    /\ preview.isOpen
    /\ preview.steps < MaxSteps
    /\ preview' = [preview EXCEPT
           !.currentIndex = IF Len(preview.images) > 1
                            THEN (IF preview.currentIndex < Len(preview.images) - 1
                                  THEN preview.currentIndex + 1
                                  ELSE 0)
                            ELSE @,
           !.last = "next", !.from = preview.currentIndex, !.steps = @ + 1]
    /\ UNCHANGED <<repoVars, catVars, srvVars, pairVars, galVars, authVars>>

\* the Trash2 button: the confirmation dialog opens and names currentImage
PreviewHandleDelete ==
    /\ preview.isOpen /\ preview.image # NoImage
    /\ ~preview.showDeleteConfirm
    /\ preview' = [preview EXCEPT !.showDeleteConfirm = TRUE,
                                  !.last = "delete", !.from = preview.currentIndex]
    /\ UNCHANGED <<repoVars, catVars, srvVars, pairVars, galVars, authVars>>

\* the dialog's onClose
cancelDelete ==
    /\ preview.showDeleteConfirm /\ preview.image # NoImage
    /\ preview' = [preview EXCEPT !.showDeleteConfirm = FALSE,
                                  !.last = "cancel", !.from = preview.currentIndex]
    /\ UNCHANGED <<repoVars, catVars, srvVars, pairVars, galVars, authVars>>

\* handlePreviewClose of the gallery: the X button, Escape, onOpenChange
handlePreviewClose ==
    /\ preview.isOpen
    /\ preview' = [preview EXCEPT !.isOpen = FALSE, !.image = NoImage,
                                  !.last = "close", !.from = preview.currentIndex]
    /\ UNCHANGED <<repoVars, catVars, srvVars, pairVars, galVars, authVars>>

\* the dialog's onConfirm: onDelete(image.id), setShowDeleteConfirm(false),
\* onClose(); `named` is the id of the image the dialog's description names,
\* `deleted` the id handed to onDelete
confirmDelete ==
    /\ preview.showDeleteConfirm /\ preview.image # NoImage
    /\ preview' = [preview EXCEPT
           !.named = currentImage(preview).id,
           !.deleted = preview.image.id,
           !.showDeleteConfirm = FALSE,
           !.isOpen = FALSE, !.image = NoImage,
           !.last = "confirm", !.from = preview.currentIndex]
    /\ UNCHANGED <<repoVars, catVars, srvVars, pairVars, galVars, authVars>>

\* the gallery's list changes (an image was deleted and the list refetched):
\* the preview is given the new list and the index effect runs
PreviewListChange(k) ==
    /\ preview.steps < MaxSteps
    /\ k \in DOMAIN preview.images
    /\ LET imgs == SubSeq(preview.images, 1, k - 1) \o
                   SubSeq(preview.images, k + 1, Len(preview.images))
       IN  preview' = [preview EXCEPT
               !.images = imgs,
               !.currentIndex = IndexEffect(preview.image, imgs, @),
               !.last = "list", !.from = preview.currentIndex, !.steps = @ + 1]
    /\ UNCHANGED <<repoVars, catVars, srvVars, pairVars, galVars, authVars>>

NextPreview ==
    \/ \E k \in 1..MaxPreview : handleImageView(k)
    \/ handlePrevious
    \/ handleNext
    \/ PreviewHandleDelete
    \/ cancelDelete
    \/ confirmDelete
    \/ handlePreviewClose
    \/ \E k \in 1..MaxPreview : PreviewListChange(k)

SpecPreview == InitPreview /\ [][NextPreview]_vars

\* -------------------------------------------------------- preview claims
\* what previous and next do to the index of a list of n images
StepsAsStated ==
    LET n == Len(preview.images)
        i == preview.from
    IN  /\ (preview.last = "next" /\ n > 1) =>
               preview.currentIndex = (IF i = n - 1 THEN 0 ELSE i + 1)
        /\ (preview.last = "previous" /\ n > 1) =>
               preview.currentIndex = (IF i = 0 THEN n - 1 ELSE i - 1)
        /\ (preview.last \in {"next", "previous"} /\ n <= 1) =>
               preview.currentIndex = i

\* C22: previous and next step and wrap as above, and whenever the list is
\* non-empty the index is within 0..n-1.
C22_IndexAlwaysInRange ==
    /\ StepsAsStated
    /\ preview.images # <<>> =>
           preview.currentIndex \in 0..(Len(preview.images) - 1)

\* C25: the id a confirmed delete hands to onDelete is the id of the image
\* on display, images[currentIndex], which the confirmation dialog names.
C25_ConfirmDeletesDisplayed ==
    preview.last = "confirm" => preview.deleted = preview.named

\* ======================================================= the AuthProvider
\* AuthProvider (part_004), initializeSupabase (part_009) and ProtectedRoute
\* of one browser, with the user routes of the server. The identity provider
\* is outside the repository: what its calls answer is drawn from the
\* outcomes its client library has. One person signs up and in: AuthUser.
MaxSignIns == 1     \* signInWithPassword calls in one behaviour
AuthUser == [id |-> "u1", email |-> "a@x"]

\* fetch('/api/config') and what initializeSupabase makes of it: true only
\* for an ok answer carrying both values; false for every other answer and
\* when fetch or response.json() rejects
ConfigOutcomes == {"ok", "notOk", "incomplete", "rejected"}
initializeSupabase(outcome) == outcome = "ok"

\* supabase.auth.getSession(): a session, none, an error answer
\* ({ data: { session: null }, error }), or a rejected promise
SessionOutcomes == {"session", "none", "error", "rejected"}

\* supabase.auth.signUp(): an error, a user still to confirm the address
\* (no session), or a user who is signed in at once
SignUpOutcomes == {"error", "user", "session"}

\* what a protected route renders
ProtectedRoute(a) ==
    IF a.loading THEN "skeleton"
    ELSE IF a.user = Null THEN "redirect"
    ELSE "content"

InitAuth ==
    /\ variant \in UserVariants
    /\ users = EmptyMap
    /\ images = <<>>
    /\ now = 0
    /\ lastOp = NoOp
    /\ made = {}
    /\ nCalls = 0
    /\ CatIdle
    /\ SrvIdle
    /\ PairIdle
    /\ GalIdle
    /\ PrevIdle
    /\ auth = NoAuth

\* the handler slots that are running
FreeHandlers == { h \in 1..MaxHandlers : auth.handler[h].pc = "idle" }

\* the provider's SIGNED_IN event reaches the onAuthStateChange callback:
\* setSession, setUser, and the handler goes on to its GET
SignedIn(a) ==
    IF a.subscribed /\ FreeHandlers # {}
    THEN LET h == CHOOSE x \in FreeHandlers : \A y \in FreeHandlers : x <= y
         IN  [a EXCEPT !.user = AuthUser.id, !.handler[h].pc = "get"]
    ELSE a

\* initAuth: const initialized = await initializeSupabase()
InitializeSupabase(outcome) ==
    /\ auth.init = "config"
    /\ auth' = IF initializeSupabase(outcome)
               THEN [auth EXCEPT !.init = "session"]
               ELSE [auth EXCEPT !.init = "failed", !.loading = FALSE]
    /\ UNCHANGED <<repoVars, catVars, srvVars, pairVars, galVars, prevVars>>

\* initAuth: await supabase.auth.getSession(), setSession, setUser,
\* onAuthStateChange(...), setLoading(false); a rejected call leaves initAuth
GetSession(outcome) ==
    /\ auth.init = "session"
    /\ auth' = IF outcome = "rejected"
               THEN [auth EXCEPT !.init = "threw"]
               ELSE [auth EXCEPT !.init = "ready",
                                 !.user = IF outcome = "session" THEN AuthUser.id ELSE Null,
                                 !.account = @ \/ outcome = "session",
                                 !.subscribed = TRUE, !.loading = FALSE]
    /\ UNCHANGED <<repoVars, catVars, srvVars, pairVars, galVars, prevVars>>

\* signUp: await supabase.auth.signUp(...); with a user it goes on to its POST
SignUpCall(outcome) ==
    /\ auth.init = "ready" /\ auth.signUp = "idle" /\ ~auth.account
    /\ auth' = CASE outcome = "error" -> [auth EXCEPT !.signUp = "done"]
                 [] outcome = "user" -> [auth EXCEPT !.signUp = "post", !.account = TRUE]
                 [] outcome = "session" ->
                        SignedIn([auth EXCEPT !.signUp = "post", !.account = TRUE])
    /\ UNCHANGED <<repoVars, catVars, srvVars, pairVars, galVars, prevVars>>

\* what POST /api/users does when the request arrives
PostArrives(delivered, body) ==
    IF delivered THEN PostUserRoute(variant, users, body, now).users ELSE users

\* signUp: await fetch('/api/users', { method: 'POST', ... }) with no look at
\* what is stored; a rejected fetch is caught
SignUpPost(delivered) ==
    /\ auth.signUp = "post"
    /\ users' = PostArrives(delivered, [id |-> AuthUser.id, email |-> AuthUser.email,
                                        fullName |-> "Ann", avatarUrl |-> Null])
    /\ auth' = [auth EXCEPT !.signUp = "done",
                            !.posts = IF delivered THEN @ + 1 ELSE @]
    /\ UNCHANGED <<variant, images, now, lastOp, made, nCalls, catVars, srvVars, pairVars, galVars, prevVars>>

\* signIn: supabase.auth.signInWithPassword(...) of a person with an account
SignInCall(ok) ==
    /\ auth.init = "ready" /\ auth.account /\ auth.signIns < MaxSignIns
    /\ auth' = IF ok THEN SignedIn([auth EXCEPT !.signIns = @ + 1])
               ELSE [auth EXCEPT !.signIns = @ + 1]
    /\ UNCHANGED <<repoVars, catVars, srvVars, pairVars, galVars, prevVars>>

\* the handler: const response = await fetch(`/api/users/${session.user.id}`)
HandlerGet(h, delivered) ==
    /\ auth.handler[h].pc = "get"
    /\ LET status == GetUserRoute(variant, users, AuthUser.id).status
       IN  auth' = IF ~delivered THEN [auth EXCEPT !.handler[h].pc = "done"]
                   ELSE IF status = 404
                   THEN [auth EXCEPT !.handler[h] = [pc |-> "post", status |-> status]]
                   ELSE [auth EXCEPT !.handler[h] = [pc |-> "done", status |-> status]]
    /\ UNCHANGED <<repoVars, catVars, srvVars, pairVars, galVars, prevVars>>

\* the handler: response.status === 404, await fetch('/api/users', POST)
HandlerPost(h, delivered) ==
    /\ auth.handler[h].pc = "post"
    /\ users' = PostArrives(delivered, [id |-> AuthUser.id, email |-> AuthUser.email,
                                        fullName |-> Null, avatarUrl |-> Null])
    /\ auth' = [auth EXCEPT !.handler[h].pc = "done",
                            !.posts = IF delivered THEN @ + 1 ELSE @]
    /\ UNCHANGED <<variant, images, now, lastOp, made, nCalls, catVars, srvVars, pairVars, galVars, prevVars>>

NextAuth ==
    \/ \E o \in ConfigOutcomes : InitializeSupabase(o)
    \/ \E o \in SessionOutcomes : GetSession(o)
    \/ \E o \in SignUpOutcomes : SignUpCall(o)
    \/ \E d \in BOOLEAN : SignUpPost(d)
    \/ \E ok \in BOOLEAN : SignInCall(ok)
    \/ \E h \in 1..MaxHandlers, d \in BOOLEAN : HandlerGet(h, d)
    \/ \E h \in 1..MaxHandlers, d \in BOOLEAN : HandlerPost(h, d)

SpecAuth == InitAuth /\ [][NextAuth]_vars

\* every awaited call of initAuth settles
SpecAuthFair ==
    /\ SpecAuth
    /\ WF_vars(\E o \in ConfigOutcomes : InitializeSupabase(o))
    /\ WF_vars(\E o \in SessionOutcomes : GetSession(o))

\* ----------------------------------------------------------- auth claims
\* C23: a SIGNED_IN handler is at its POST only after its GET was answered
\* 404, and the server receives at most one POST /api/users for the user's
\* id from sign-up and the handlers together.
C23_UserCreatedOnce ==
    /\ \A h \in 1..MaxHandlers : auth.handler[h].pc = "post" => auth.handler[h].status = 404
    /\ auth.posts <= 1

\* C30: after the AuthProvider has mounted, loading eventually becomes false,
\* so that a protected route leaves its loading skeleton.
C30_LoadingEnds == <>(~auth.loading /\ ProtectedRoute(auth) # "skeleton")

\* C24: the path a DELETE request is about to remove from the object store
\* is the path the upload wrote the image's binary to.
C24_DeleteRemovesUploadedPath ==
    \A r \in 1..MaxReqs :
        (reqs[r].kind = "delete" /\ reqs[r].pc = "remove") =>
            RemovedPath(router, reqs[r].filePath) = BinaryPath(reqs[r].image)

\* C27: when no request is under way and no removal call of a DELETE request
\* has failed, every binary in the object store is the binary of a record.
C27_BinaryHasRecord ==
    ((\A r \in 1..MaxReqs : reqs[r].pc \in {"idle", "done"}) /\
     (\A r \in 1..MaxReqs : reqs[r].kind = "delete" => ~reqs[r].outage)) =>
        \A path \in DOMAIN bucket :
            \E k \in DOMAIN images : BinaryPath(images[k]) = path

\* ================================================= the bulk delete, again
\* The gallery after a bulk delete has failed at its k-th request: the
\* images before it are deleted, the selection is what it was, the list was
\* not fetched again (the catch block invalidates nothing). From there the
\* user repeats the bulk delete and every request is delivered and every
\* store call succeeds.

\* the server after DELETE requests for ids, in order, each answered
RECURSIVE AfterDeletes(_, _, _, _)
AfterDeletes(v, rt, st, ids) ==
    IF ids = <<>> THEN st
    ELSE LET res == DeleteRoute(v, rt, st.images, st.bucket, Head(ids), TRUE)
         IN  AfterDeletes(v, rt, [images |-> res.images, bucket |-> res.bucket], Tail(ids))

\* the selections of a list: its ids in any order of clicking, none twice
Selections(list) ==
    { sel \in UNION { [1..n -> { list[k].id : k \in DOMAIN list }] : n \in 1..Len(list) } :
          \A i, j \in DOMAIN sel : i # j => sel[i] # sel[j] }

InitRetry ==
    /\ variant = MemoryImages
    /\ router \in Routers
    /\ users = EmptyMap
    /\ reqs = [r \in 1..MaxReqs |-> NoRequest]
    /\ \E list \in getImages(variant, StoredState(variant, router, MaxStored).images) :
       \E sel \in Selections(list) :
       \E k \in 1..Len(sel) :
           LET st == AfterDeletes(variant, router, StoredState(variant, router, MaxStored),
                                  SubSeq(sel, 1, k - 1))
           IN  /\ images = st.images
               /\ bucket = st.bucket
               /\ gallery = [NoGallery EXCEPT
                      !.images = list, !.filtered = list,
                      !.selectionMode = TRUE, !.selectedImages = sel,
                      !.captured = sel, !.loop = sel,
                      !.issued = [i \in 1..k |-> [id |-> sel[i], ok |-> i < k]],
                      !.toast = "Delete failed"]
    /\ now = 0
    /\ lastOp = NoOp
    /\ made = {}
    /\ nCalls = 0
    /\ CatIdle
    /\ PairIdle
    /\ PrevIdle
    /\ AuthIdle

NextRetry ==
    \/ handleBulkDelete
    \/ ConfirmBulkDelete
    \/ BulkDeleteRequest(TRUE, TRUE)
    \/ Refetch

SpecRetry == InitRetry /\ [][NextRetry]_vars

\* C26: when the repeated bulk delete has ended, none of the selected images
\* is stored any more.
C26_RetryDeletesAll ==
    (gallery.loops = 1 /\ gallery.pc = "idle") =>
        \A k \in DOMAIN gallery.loop : ~ImgHas(images, gallery.loop[k])

\* ===================================================== select and delete
\* The gallery with its selection handlers, the category filter, the delete
\* button of one image (deleteMutation) and the bulk delete.
MaxSelectable == 2  \* images stored when the gallery is opened
MaxSingles == 1     \* single deletes confirmed in one behaviour

InitSelect ==
    /\ variant = MemoryImages
    /\ router \in Routers
    /\ users = EmptyMap
    /\ images = StoredState(variant, router, MaxSelectable).images
    /\ bucket = StoredState(variant, router, MaxSelectable).bucket
    /\ reqs = [r \in 1..MaxReqs |-> NoRequest]
    /\ \E list \in getImages(variant, images) :
           gallery = [NoGallery EXCEPT !.images = list, !.filtered = list]
    /\ now = 0
    /\ lastOp = NoOp
    /\ made = {}
    /\ nCalls = 0
    /\ CatIdle
    /\ PairIdle
    /\ PrevIdle
    /\ AuthIdle

\* the Trash2 button of a listed image (disabled while the mutation is
\* pending): opens the dialog; its onConfirm holds the image's id
handleDelete(imageId) ==
    /\ \E k \in DOMAIN gallery.filtered : gallery.filtered[k].id = imageId
    /\ gallery.mutating = NoImage.id
    /\ gallery.confirm = "none"
    /\ gallery' = [gallery EXCEPT !.confirm = "single", !.target = imageId]
    /\ UNCHANGED <<repoVars, catVars, srvVars, pairVars, prevVars, authVars>>

\* the dialog's confirm button: deleteMutation.mutate(imageId)
ConfirmDelete ==
    /\ gallery.confirm = "single"
    /\ gallery.singles < MaxSingles
    /\ gallery' = [gallery EXCEPT !.confirm = "none", !.mutating = gallery.target,
                                  !.toast = "", !.singles = @ + 1]
    /\ UNCHANGED <<repoVars, catVars, srvVars, pairVars, prevVars, authVars>>

\* deleteMutation: mutationFn awaits the DELETE request; onSuccess
\* invalidates the query and toasts, onError toasts
deleteMutation(delivered, storeOk) ==
    /\ gallery.mutating # NoImage.id
    /\ LET res == IF delivered
                  THEN DeleteRoute(variant, router, images, bucket, gallery.mutating, storeOk)
                  ELSE [status |-> 0, images |-> images, bucket |-> bucket]
       IN  /\ images' = res.images
           /\ bucket' = res.bucket
           /\ gallery' = IF apiRequestThrows(delivered, res.status)
                         THEN [gallery EXCEPT !.mutating = NoImage.id,
                                              !.toast = "Delete failed"]
                         ELSE [gallery EXCEPT !.mutating = NoImage.id, !.stale = TRUE,
                                              !.toast = "Image deleted"]
    /\ UNCHANGED <<variant, users, now, lastOp, made, nCalls, catVars, reqs, router, pairVars, prevVars, authVars>>

NextSelect ==
    \/ toggleSelectionMode
    \/ \E id \in ImgIds(gallery.images) : toggleImageSelection(id)
    \/ selectAllImages
    \/ \E k \in DOMAIN categories : SetSelectedCategory(categories[k])
    \/ \E id \in ImgIds(gallery.images) : handleDelete(id)
    \/ ConfirmDelete
    \/ \E delivered \in BOOLEAN, storeOk \in BOOLEAN : deleteMutation(delivered, storeOk)
    \/ handleBulkDelete
    \/ ConfirmBulkDelete
    \/ \E delivered \in BOOLEAN, storeOk \in BOOLEAN : BulkDeleteRequest(delivered, storeOk)
    \/ Refetch

SpecSelect == InitSelect /\ [][NextSelect]_vars

\* the fetched list holds the images the server stores
UpToDate ==
    /\ ~gallery.stale
    /\ { gallery.images[k].id : k \in DOMAIN gallery.images } = ImgIds(images)

\* C28: whenever the fetched list is up to date with the server, every
\* selected id is the id of an image of that list.
C28_SelectionWithinList ==
    UpToDate =>
        \A k \in DOMAIN gallery.selectedImages :
            \E j \in DOMAIN gallery.images :
                gallery.images[j].id = gallery.selectedImages[k]

\* C29: whenever selection mode is off the selection is empty.
C29_NoSelectionOutsideMode ==
    ~gallery.selectionMode => gallery.selectedImages = <<>>

\* a bulk delete of a selection has succeeded and has left selection mode
C29_Witness ==
    /\ ~gallery.selectionMode
    /\ gallery.selectedImages = <<>>
    /\ gallery.loop # <<>>
    /\ gallery.toast = "Images deleted"

====
